---- MODULE Spec2Model ----
(***************************************************************************)
(* Handle-lifecycle and reentrant-callback-dispatch protocol of the        *)
(* trywin windowing layer.                                                 *)
(*                                                                         *)
(* The router is trywin/src/comm_ctrl/object_wrappers.rs (static_wndproc,  *)
(* static_subclass_wndproc, StaticWndprocState, CreatedWindow); the user   *)
(* dispatch logic it wraps is WindowImpl::wndproc of                       *)
(* trywin/src/comm_ctrl.rs together with the WindowImpl operation surface  *)
(* (new_main, new_child, destroy, check_live, on_close, on_destroy, the    *)
(* liveness-checked operations) and CallbackCell.  The Rc<Cell<HWND>>      *)
(* shared by CreatedWindow and StaticWndprocState and the hwnd field of    *)
(* WindowImpl are one HandleCell per node (variable hwnd).                 *)
(*                                                                         *)
(* Everything runs on one thread.  The variable stack is that thread's     *)
(* call stack: raw entry point frames ("disp"), callback frames ("cb"),    *)
(* and the frames of the native calls DestroyWindow and CreateWindowExW,   *)
(* which send notifications synchronously.  User code (the main program    *)
(* when the stack is empty, a callback when a "cb" frame is on top) issues *)
(* requests; a native handle is identified with the number of its node.    *)
(***************************************************************************)
EXTENDS Integers, Sequences, FiniteSets, TLC

\* ------------------------------------------------------------------ bounds
MaxNodes == 3
MaxCallbacks == 1
\* Width of entry_count in bits.  The source has u32; the model keeps the
\* arithmetic of a fixed width and narrows the width.
CounterBits == 2

Nodes == 1..MaxNodes

\* ------------------------------------------------------------- vocabulary
NULL == 0

\* The largest value of entry_count.
CounterMax == 2 ^ CounterBits - 1

\* Option::None of checked_add.
None == -1

WM_NCCREATE == "WM_NCCREATE"
WM_CLOSE == "WM_CLOSE"
WM_DESTROY == "WM_DESTROY"
WM_NCDESTROY == "WM_NCDESTROY"
WM_PAINT == "WM_PAINT"
WM_OTHER == "WM_OTHER"

\* Messages the event loop hands to the router.
QueuedMessages == {WM_CLOSE, WM_PAINT, WM_OTHER}

\* The program of main.rs (make): every child is created under the main window,
\* custom children and native controls alternating.
ChildParents == {1}
ChildControl(n) == n % 2 = 1

\* Callback: Empty | Filled(f) | Borrowed; f is the identity of the closure.
Empty == [st |-> "Empty", f |-> 0]
Borrowed == [st |-> "Borrowed", f |-> 0]
Filled(f) == [st |-> "Filled", f |-> f]

\* No set has been called on the slot of a callback since it started to run.
Unwritten == [st |-> "Unwritten", f |-> 0]

\* The liveness-checked operation surface of impl Window for Window.
Operations == {"text", "bounds", "background", "visible", "move_offscreen", "redraw", "snapshot"}

\* Operations whose native call sends a notification to the window before it
\* returns (SetWindowTextW, SetWindowPos, ShowWindow).
SendingOperations == {"text", "bounds", "visible", "move_offscreen"}

\* The sending operations take the same step as text, and snapshot the same
\* step as redraw: Next enumerates one operation of each kind.
EnumeratedOperations == {"text", "background", "redraw"}

\* The result of a call: its value, how often it ran the native default handler,
\* whether it issued a native call, for a dispatch call the handle h it was
\* made for, for a request that was answered without any native call or a
\* creation request the name of the request (call), and for a creation request
\* that succeeded the node its handle refers to (node).
NoRet == [v |-> "none", def |-> 0, native |-> FALSE, h |-> 0, call |-> "none", node |-> 0]

Ret(v, def, native) ==
    [v |-> v, def |-> def, native |-> native, h |-> 0, call |-> "none", node |-> 0]

DispatchRet(h, v, def) ==
    [v |-> v, def |-> def, native |-> FALSE, h |-> h, call |-> "none", node |-> 0]

CallRet(call, v) ==
    [v |-> v, def |-> 0, native |-> FALSE, h |-> 0, call |-> call, node |-> 0]

\* Ok(window) of new_main, Ok(child) of new_child.
CreatedRet(call, n) ==
    [v |-> "Ok", def |-> 0, native |-> TRUE, h |-> 0, call |-> call, node |-> n]

\* The native error of a creation request: Err(core::Error::from_win32()).
FailedRet(call) ==
    [v |-> "Err", def |-> 0, native |-> TRUE, h |-> 0, call |-> call, node |-> 0]

VARIABLES
    alloc,          \* number of WindowImpl nodes allocated so far (nodes 1..alloc)
    control,        \* control[n]: n is a native control (subclassed entry point)
    nparent,        \* nparent[n]: native parent handle, NULL for the main window
    hwnd,           \* HandleCell of node n: NULL or its native identity
    on_close,       \* WindowEvents.on_close of node n
    on_destroy,     \* WindowEvents.on_destroy of node n
    children,       \* WindowImpl.children of node n
    background,     \* WindowOptions.background of node n (0 = None)
    entry_count,    \* StaticWndprocState.entry_count
    destroy_this,   \* StaticWndprocState.destroy_this
    state,          \* the Box<StaticWndprocState> of node n: "none" | "live" | "freed"
    win,            \* native object of handle h: "none" | "alive" | "destroying" | "dead"
    assoc,          \* GWLP_USERDATA of h, or the dwrefdata of its subclass registration
    stack,          \* call stack, outermost frame first
    ret,            \* result of the call that returned in the last step
    ncb,            \* closures stored in a slot so far
    router,         \* the version of the router the program is built with
    strong,         \* strong count of the Rc<WindowImpl> of node n (version with `this`)
    dropped,        \* the last holder of node n has been released and its Drop has run
    statement,      \* codexform: the statement handed to Item::new
    item,           \* codexform: what Item::new returned for it
    frees,          \* ghost: deallocations of the dispatch state of node n
    uaf,            \* ghost: a freed dispatch state was dereferenced
    born,           \* ghost: the creation request of node n returned success
    terminal,       \* ghost: the native runtime finished delivering WM_NCDESTROY to h
    faulted         \* ghost: a dispatch call of node n caught a fault

node_vars == <<alloc, control, nparent, hwnd, on_close, on_destroy, children, background>>
state_vars == <<entry_count, destroy_this, state>>
native_vars == <<win, assoc>>
ghost_vars == <<frees, uaf, born, terminal, faulted>>
config_vars == <<router, statement, item>>
build_vars == <<config_vars, strong, dropped>>
vars == <<node_vars, state_vars, native_vars, stack, ret, ncb, build_vars, ghost_vars>>

\* --------------------------------------------------- codexform: Item::new
\* Longest method chain of a statement.
MaxChain == 3

\* Identifiers are sequences of characters.
Idents == {<<"x">>, <<"y">>}

\* Method names: a create method, the bare prefix, a name that only begins
\* like the prefix, an event method and an attribute method.
MethodNames ==
    {<<"n", "e", "w", "_", "a">>, <<"n", "e", "w", "_">>, <<"n", "e", "w">>,
     <<"o", "n", "_", "a">>, <<"t">>}

\* str::starts_with
starts_with(s, prefix) ==
    Len(s) >= Len(prefix) /\ SubSeq(s, 1, Len(prefix)) = prefix

\* A classification that takes every name beginning with "new" for a create
\* method.
MethodType_from_ident_new(ident) ==
    IF starts_with(ident, <<"n", "e", "w">>) THEN "Create"
    ELSE IF starts_with(ident, <<"o", "n", "_">>) THEN "Event"
    ELSE "Attr"

\* MethodType::from_ident
MethodType_from_ident(ident) ==
    IF starts_with(ident, <<"n", "e", "w", "_">>) THEN "Create"
    ELSE IF starts_with(ident, <<"o", "n", "_">>) THEN "Event"
    ELSE "Attr"

\* Vec::reverse
Reversed(s) == [i \in 1..Len(s) |-> s[Len(s) + 1 - i]]

\* The expression root.m1()...mk() as syn parses it: the outermost method
\* call is mk and each receiver is the call before it, down to the path root.
Expr(root, chain) == [root |-> root, calls |-> Reversed(chain)]

\* `let ident = root.m1()...mk();`
Local(ident, root, chain) == [ident |-> ident, expr |-> Expr(root, chain)]

\* The chains of at most n method calls, in source order.
RECURSIVE Chains(_)
Chains(n) ==
    IF n = 0 THEN {<<>>}
    ELSE LET shorter == Chains(n - 1)
         IN shorter \cup {Append(c, m) : c \in {d \in shorter : Len(d) = n - 1},
                                          m \in MethodNames}

Statements == {Local(x, root, c) : x \in Idents, root \in Idents, c \in Chains(MaxChain)}

NoStatement == Local(<<>>, <<>>, <<>>)
Unclassified == [kind |-> "Unclassified"]
NoItem == [kind |-> "None"]

\* Method { ident, method_type, .. }
Method(ident) == [ident |-> ident, method_type |-> MethodType_from_ident(ident)]

\* MethodChain::new: walk the receivers from the outermost call and push each
\* method, then reverse the list.
MethodChain_new(expr) ==
    [ident |-> expr.root,
     methods |-> Reversed([i \in 1..Len(expr.calls) |-> Method(expr.calls[i])])]

\* Item::new on a `let` statement.
Item_new(stmt) ==
    LET chain == MethodChain_new(stmt.expr)
    IN IF chain.methods = <<>> THEN NoItem
       ELSE IF chain.ident # stmt.ident /\ chain.methods[1].method_type = "Create"
       THEN [kind |-> "Definition", ident |-> stmt.ident, parent |-> chain.ident,
             create |-> chain.methods[1], methods |-> Tail(chain.methods)]
       ELSE IF chain.ident = stmt.ident /\ chain.methods[1].method_type # "Create"
       THEN [kind |-> "Redefinition", ident |-> stmt.ident, methods |-> chain.methods]
       ELSE NoItem

\* ------------------------------------------------------------------ frames
\* A frame: its kind t, the handle h it is about, the message or caller m, its
\* position pc, the resolved state p, the entry point (sub), the flag the
\* entry point passes to the user logic (flag), the caught fault (err),
\* the running closure f, the default-handler calls (def), req, the nodes
\* whose native destruction the callback of this frame has requested, and w,
\* the value last written by CallbackCell::set to the slot of a callback
\* frame while it runs.
Frame(t, h, m, pc) == [t |-> t, h |-> h, m |-> m, pc |-> pc, p |-> NULL,
                       sub |-> FALSE, flag |-> FALSE, err |-> FALSE, f |-> 0, def |-> 0,
                       req |-> {}, w |-> Unwritten]

\* The call stack after CallbackCell::set wrote value v to the slot name of
\* node n: the callbacks running from that slot have seen a write.
Written(stk, name, n, v) ==
    [i \in 1..Len(stk) |->
        IF stk[i].t = "cb" /\ stk[i].h = n /\ stk[i].m = name
        THEN [stk[i] EXCEPT !.w = v] ELSE stk[i]]

Depth == Len(stack)
Top == stack[Depth]
Pop == SubSeq(stack, 1, Depth - 1)
Push(fr) == Append(stack, fr)
SetTop(fr) == [stack EXCEPT ![Depth] = fr]

\* User code has control: the main program, or the body of a callback.
UserTurn == Depth = 0 \/ (Depth > 0 /\ Top.t = "cb")

Min(S) == CHOOSE x \in S : \A y \in S : x <= y

\* ------------------------------------------------------------------- Init
\* The two versions of the router that keep a StaticWndprocState.
Routers == {"object_wrappers", "wndproc_wrappers"}

\* The state after construction, whatever router the program is built with.
InitProgram ==
    /\ alloc = 0
    /\ control = [n \in Nodes |-> FALSE]
    /\ nparent = [n \in Nodes |-> NULL]
    /\ hwnd = [n \in Nodes |-> NULL]
    /\ on_close = [n \in Nodes |-> Empty]
    /\ on_destroy = [n \in Nodes |-> Empty]
    /\ children = [n \in Nodes |-> <<>>]
    /\ background = [n \in Nodes |-> 0]
    /\ entry_count = [n \in Nodes |-> 0]
    /\ destroy_this = [n \in Nodes |-> FALSE]
    /\ state = [n \in Nodes |-> "none"]
    /\ win = [n \in Nodes |-> "none"]
    /\ assoc = [n \in Nodes |-> NULL]
    /\ stack = <<>>
    /\ ret = NoRet
    /\ ncb = 0
    /\ frees = [n \in Nodes |-> 0]
    /\ uaf = FALSE
    /\ born = [n \in Nodes |-> FALSE]
    /\ terminal = [n \in Nodes |-> FALSE]
    /\ faulted = [n \in Nodes |-> FALSE]
    /\ strong = [n \in Nodes |-> 0]
    /\ dropped = [n \in Nodes |-> FALSE]

\* The window programs hand no statement to the extractor.
NoInput == statement = NoStatement /\ item = Unclassified

\* comm_ctrl.rs is built with the router of object_wrappers.rs.
Init == InitProgram /\ router = "object_wrappers" /\ NoInput

\* The same program built with either version of the router.
InitRouters == InitProgram /\ router \in Routers /\ NoInput

\* ------------------------------------------------- WindowImpl: liveness
\* A node that always counts as live.
live_always(n) == TRUE

live(n) == hwnd[n] # NULL

\* A liveness check that lets every node through.
check_live_skipped(n) == "Ok"

check_live(n) == IF ~live(n) THEN "Destroyed" ELSE "Ok"

\* ------------------------------------------------------ native runtime
\* The frames the native runtime pushes to send message m to handle h:
\* a window of class "general_window" always enters static_wndproc; a native
\* control enters static_subclass_wndproc while a subclass is registered, and
\* otherwise only its own class procedure, whose default handling of a
\* close-request is to destroy the window.
Route(h, m, cp) ==
    IF ~control[h]
    THEN <<[Frame("disp", h, m, "entry") EXCEPT !.p = cp]>>
    ELSE IF assoc[h] # NULL
         THEN <<[Frame("disp", h, m, "entry") EXCEPT !.p = assoc[h], !.sub = TRUE]>>
         ELSE IF m = WM_CLOSE THEN <<Frame("DestroyWindow", h, "none", "begin")>>
              ELSE <<>>

\* SendMessageW: nothing is sent to a handle that is not a window.
Send(h, m) ==
    IF h \in 1..alloc /\ win[h] \in {"alive", "destroying"} THEN Route(h, m, NULL) ELSE <<>>

NativeChildren(h) == {c \in 1..alloc : nparent[c] = h /\ win[c] = "alive"}

\* ------------------------------------------------------- CallbackCell
Slot(name, n) == IF name = "on_close" THEN on_close[n] ELSE on_destroy[n]

\* CallbackCell::borrow: what the CallbackRef takes out of the slot (0 = None);
\* the slot itself is left Borrowed.
Taken(slot) == IF slot.st = "Filled" THEN slot.f ELSE 0

\* A drop that puts the closure back whatever the slot holds.
DropRef_reattach(slot, taken) == IF taken # 0 THEN Filled(taken) ELSE slot

\* A drop that never puts the closure back.
DropRef_discard(slot, taken) == IF slot.st = "Borrowed" THEN Empty ELSE slot

\* Drop for CallbackRef: put the closure back only if the slot is still Borrowed.
DropRef(slot, taken) ==
    IF slot.st = "Borrowed"
    THEN (IF taken # 0 THEN Filled(taken) ELSE Empty)
    ELSE slot

\* A borrow that leaves the slot as it found it.
BorrowedSlot_kept(slot) == slot

\* CallbackCell::borrow: std::mem::replace(.., Callback::Borrowed)
BorrowedSlot(slot) == Borrowed

\* CallbackCell::set
SetSlot(f) == IF f # 0 THEN Filled(f) ELSE Empty

\* ------------------------------------------------ WindowImpl::wndproc
\* A dispatch that runs no callback on the pre-destruction notification.
SlotFor_close_only(m) == IF m = WM_CLOSE THEN "on_close" ELSE "none"

\* A dispatch that also runs on_close on the pre-destruction notification.
SlotFor_close_twice(m) ==
    IF m = WM_CLOSE \/ m = WM_DESTROY THEN "on_close" ELSE "none"

\* The slot WindowImpl::wndproc invokes for a message ("none": no callback).
SlotFor(m) ==
    IF m = WM_CLOSE THEN "on_close"
    ELSE IF m = WM_DESTROY THEN "on_destroy"
    ELSE "none"

\* A dispatch that consumes every message.
Consumed_all(subclassed, m) == TRUE

\* A dispatch that hands the close-request to the default handler.
Consumed_paint_only(subclassed, m) == m = WM_PAINT /\ ~subclassed

\* Whether WindowImpl::wndproc returns Some(LRESULT(0)) (the message is consumed)
\* or None (the router calls the bound default handler).
Consumed(subclassed, m) ==
    \/ m = WM_CLOSE
    \/ (m = WM_PAINT /\ ~subclassed)

\* --------------------------------------------- StaticWndprocState / router
\* A counter that only remembers whether a call is active.
checked_add_flag(c) == IF c >= 1 THEN c ELSE c + 1

\* An increment that wraps around.
checked_add_wrapping(c) == (c + 1) % (CounterMax + 1)

\* entry_count.get().checked_add(1)
checked_add(c) == IF c = CounterMax THEN None ELSE c + 1

\* A pre-creation notification that never writes the cell.
NcCreateHwnd_unset(cur, handle) == cur

\* WM_NCCREATE: the cell is written only while it is null.
NcCreateHwnd(cur, handle) == IF cur = NULL THEN handle ELSE cur

\* A teardown that ignores the caught fault.
TeardownNeeded_terminal_only(m, err) == m = WM_NCDESTROY

\* A teardown that takes the close-request for the terminal notification.
TeardownNeeded_on_close(m, err) == m = WM_NCDESTROY \/ m = WM_CLOSE \/ err

\* message == WM_NCDESTROY || res.is_err()
TeardownNeeded(m, err) == m = WM_NCDESTROY \/ err

\* A free that does not wait for the last call.
LastCall_any(c, d) == d

\* A free on every return to depth 0, scheduled or not.
LastCall_unscheduled(c, d) == c = 0

\* entry_count.get() == 0 && destroy_this.get()
LastCall(c, d) == c = 0 /\ d

\* A teardown that leaves the association in place.
TornDownAssoc_kept(p) == p

\* The association a torn-down handle keeps: SetWindowLongPtrW(handle,
\* GWLP_USERDATA, 0) or RemoveWindowSubclass.
TornDownAssoc(p) == NULL

\* res.unwrap_or(LRESULT(0))
UnwrapOr(err, v) == IF err THEN "0" ELSE v

\* A router that takes the state from the handle itself.
Resolve_by_handle(h, m, cp) == h

\* The first argument of window_proc.wndproc in the entry point entered
\* (sub: static_subclass_wndproc) of router r.
commctrl(r, sub) ==
    IF ~sub THEN FALSE
    ELSE IF r = "wndproc_wrappers" THEN TRUE
    ELSE FALSE

\* static_wndproc: p is lpCreateParams on WM_NCCREATE, else GWLP_USERDATA.
Resolve(h, m, cp) == IF m = WM_NCCREATE THEN cp ELSE assoc[h]

IsTop(t, pc) == Depth > 0 /\ ~uaf /\ Top.t = t /\ Top.pc = pc

\* static_wndproc, up to the call of the user logic: resolve p (out of band on
\* WM_NCCREATE, else from GWLP_USERDATA; null goes to DefWindowProcW, whose
\* handling of a close-request is DestroyWindow) and count the entry.  When
\* checked_add overflows the process aborts: the frame stays at "abort" and
\* nothing runs any more.
static_wndproc_entry ==
    /\ IsTop("disp", "entry")
    /\ ~Top.sub
    /\ LET h == Top.h
           m == Top.m
           p == Resolve(h, m, Top.p)
       IN IF p = NULL
          THEN /\ IF m = WM_CLOSE
                  THEN /\ stack' = Append(SetTop([Top EXCEPT !.pc = "defret", !.def = 1]),
                                          Frame("DestroyWindow", h, "none", "begin"))
                       /\ ret' = NoRet
                  ELSE /\ stack' = Pop
                       /\ ret' = DispatchRet(h, "default", 1)
               /\ UNCHANGED <<node_vars, state_vars, native_vars, ncb, ghost_vars>>
          ELSE /\ assoc' = IF m = WM_NCCREATE THEN [assoc EXCEPT ![h] = p] ELSE assoc
               /\ hwnd' = IF m = WM_NCCREATE
                          THEN [hwnd EXCEPT ![p] = NcCreateHwnd(hwnd[p], h)]
                          ELSE hwnd
               /\ uaf' = (state[p] # "live")
               /\ IF checked_add(entry_count[p]) = None
                  THEN /\ stack' = SetTop([Top EXCEPT !.p = p, !.pc = "abort"])
                       /\ UNCHANGED entry_count
                  ELSE /\ entry_count' = [entry_count EXCEPT ![p] = checked_add(@)]
                       /\ stack' = SetTop([Top EXCEPT !.p = p, !.pc = "user",
                                                       !.flag = commctrl(router, FALSE)])
               /\ ret' = NoRet
               /\ UNCHANGED <<alloc, control, nparent, on_close, on_destroy, children,
                              background, destroy_this, state, win, ncb, frees, born,
                              terminal, faulted>>
    /\ UNCHANGED build_vars

\* DefWindowProcW(WM_CLOSE) of an unassociated handle has returned.
static_wndproc_default_return ==
    /\ IsTop("disp", "defret")
    /\ stack' = Pop
    /\ ret' = DispatchRet(Top.h, "default", Top.def)
    /\ UNCHANGED <<node_vars, state_vars, native_vars, ncb, ghost_vars>>
    /\ UNCHANGED build_vars

\* static_subclass_wndproc, up to the call of the user logic: p is dwrefdata.
static_subclass_wndproc_entry ==
    /\ IsTop("disp", "entry")
    /\ Top.sub
    /\ LET p == Top.p
       IN /\ uaf' = (state[p] # "live")
          /\ IF checked_add(entry_count[p]) = None
             THEN /\ stack' = SetTop([Top EXCEPT !.pc = "abort"])
                  /\ UNCHANGED entry_count
             ELSE /\ entry_count' = [entry_count EXCEPT ![p] = checked_add(@)]
                  /\ stack' = SetTop([Top EXCEPT !.pc = "user",
                                                  !.flag = commctrl(router, TRUE)])
          /\ ret' = NoRet
          /\ UNCHANGED <<node_vars, destroy_this, state, native_vars, ncb, frees, born,
                         terminal, faulted>>
    /\ UNCHANGED build_vars

\* WindowImpl::wndproc, WM_CLOSE and WM_DESTROY arms: events.<slot>.with(|f| f()).
\* A Filled slot is left Borrowed and its closure runs; otherwise the CallbackRef
\* is dropped at once.
wndproc_callback ==
    /\ IsTop("disp", "user")
    /\ SlotFor(Top.m) # "none"
    /\ LET p == Top.p
           name == SlotFor(Top.m)
           taken == Taken(Slot(name, p))
           left == BorrowedSlot(Slot(name, p))
           after == IF taken # 0 THEN left ELSE DropRef(left, 0)
           d == IF Consumed(Top.flag, Top.m) THEN 0 ELSE 1
       IN /\ on_close' = IF name = "on_close" THEN [on_close EXCEPT ![p] = after] ELSE on_close
          /\ on_destroy' = IF name = "on_destroy" THEN [on_destroy EXCEPT ![p] = after]
                           ELSE on_destroy
          /\ stack' = IF taken # 0
                      THEN Append(SetTop([Top EXCEPT !.pc = "incb", !.f = taken, !.def = d]),
                                  [Frame("cb", p, name, "run") EXCEPT !.f = taken])
                      ELSE SetTop([Top EXCEPT !.pc = "post", !.def = d])
          /\ ret' = NoRet
          /\ UNCHANGED <<alloc, control, nparent, hwnd, children, background, state_vars,
                         native_vars, ncb, ghost_vars>>
    /\ UNCHANGED build_vars

\* WindowImpl::wndproc, WM_NCDESTROY arm: clear the cell, the children and the
\* callbacks.
wndproc_ncdestroy ==
    /\ IsTop("disp", "user")
    /\ Top.m = WM_NCDESTROY
    /\ LET p == Top.p
       IN /\ hwnd' = [hwnd EXCEPT ![p] = NULL]
          /\ children' = [children EXCEPT ![p] = <<>>]
          /\ on_close' = [on_close EXCEPT ![p] = SetSlot(0)]
          /\ on_destroy' = [on_destroy EXCEPT ![p] = SetSlot(0)]
          /\ stack' = Written(Written(SetTop([Top EXCEPT !.pc = "post", !.def = 1]),
                                       "on_close", p, SetSlot(0)),
                               "on_destroy", p, SetSlot(0))
          /\ ret' = NoRet
          /\ UNCHANGED <<alloc, control, nparent, background, state_vars, native_vars,
                         ncb, ghost_vars>>
    /\ UNCHANGED build_vars

\* WindowImpl::wndproc, WM_PAINT and every other message.
wndproc_other ==
    /\ IsTop("disp", "user")
    /\ SlotFor(Top.m) = "none"
    /\ Top.m # WM_NCDESTROY
    /\ stack' = SetTop([Top EXCEPT !.pc = "post",
                                   !.def = IF Consumed(Top.flag, Top.m) THEN 0 ELSE 1])
    /\ ret' = NoRet
    /\ UNCHANGED <<node_vars, state_vars, native_vars, ncb, ghost_vars>>
    /\ UNCHANGED build_vars

\* static_wndproc and static_subclass_wndproc after the user logic: teardown on
\* the terminal notification or a caught fault, decrement, free on the last
\* call, return.
static_wndproc_exit ==
    /\ IsTop("disp", "post")
    /\ LET h == Top.h
           p == Top.p
           tear == TeardownNeeded(Top.m, Top.err)
           d == destroy_this[p] \/ tear
           c == entry_count[p] - 1
           free == LastCall(c, d)
       IN /\ destroy_this' = [destroy_this EXCEPT ![p] = d]
          /\ assoc' = IF tear THEN [assoc EXCEPT ![h] = TornDownAssoc(p)] ELSE assoc
          /\ hwnd' = IF tear THEN [hwnd EXCEPT ![p] = NULL] ELSE hwnd
          /\ entry_count' = [entry_count EXCEPT ![p] = c]
          /\ state' = IF free THEN [state EXCEPT ![p] = "freed"] ELSE state
          /\ frees' = IF free THEN [frees EXCEPT ![p] = @ + 1] ELSE frees
          /\ uaf' = (state[p] # "live")
          /\ faulted' = IF Top.err THEN [faulted EXCEPT ![p] = TRUE] ELSE faulted
          /\ stack' = Pop
          /\ ret' = DispatchRet(h, UnwrapOr(Top.err, IF Top.def = 0 THEN "0" ELSE "default"),
                                 Top.def)
          /\ UNCHANGED <<alloc, control, nparent, on_close, on_destroy, children, background,
                         win, ncb, born, terminal>>
    /\ UNCHANGED build_vars

\* --------------------------------------------- native DestroyWindow(h)
\* The request is refused for a handle that is not a window or is already
\* being destroyed; otherwise destruction starts with WM_DESTROY.
DestroyWindow_begin ==
    /\ IsTop("DestroyWindow", "begin")
    /\ LET h == Top.h
       IN IF win[h] = "alive"
          THEN /\ win' = [win EXCEPT ![h] = "destroying"]
               /\ stack' = SetTop([Top EXCEPT !.pc = "children"]) \o Route(h, WM_DESTROY, NULL)
               /\ ret' = NoRet
          ELSE /\ stack' = Pop
               /\ ret' = Ret("Err", 0, TRUE)
               /\ UNCHANGED win
    /\ UNCHANGED <<node_vars, state_vars, assoc, ncb, ghost_vars>>
    /\ UNCHANGED build_vars

\* Child windows are destroyed before the parent's WM_NCDESTROY.
DestroyWindow_children ==
    /\ IsTop("DestroyWindow", "children")
    /\ LET h == Top.h
       IN IF NativeChildren(h) # {}
          THEN stack' = Append(stack, Frame("DestroyWindow", Min(NativeChildren(h)),
                                            "DestroyWindow", "begin"))
          ELSE stack' = SetTop([Top EXCEPT !.pc = "finish"]) \o Route(h, WM_NCDESTROY, NULL)
    /\ ret' = NoRet
    /\ UNCHANGED <<node_vars, state_vars, native_vars, ncb, ghost_vars>>
    /\ UNCHANGED build_vars

\* WM_NCDESTROY has been delivered: the native object is gone.
DestroyWindow_finish ==
    /\ IsTop("DestroyWindow", "finish")
    /\ LET h == Top.h
       IN /\ win' = [win EXCEPT ![h] = "dead"]
          /\ assoc' = [assoc EXCEPT ![h] = NULL]
          /\ terminal' = [terminal EXCEPT ![h] = TRUE]
          /\ stack' = Pop
          /\ ret' = Ret("Ok", 0, TRUE)
    /\ UNCHANGED <<node_vars, state_vars, ncb, frees, uaf, born, faulted>>
    /\ UNCHANGED build_vars

\* -------------------------------------- CreatedWindow::new / WindowImpl::new
\* CreateWindowExW: the native object is born; a "general_window" receives
\* WM_GETMINMAXINFO, which comes first, and then WM_NCCREATE carrying the
\* state pointer in lpCreateParams; a native control does not enter the router.
CreateWindowExW_begin ==
    /\ IsTop("CreateWindowExW", "begin")
    /\ LET h == Top.h
       IN /\ win' = [win EXCEPT ![h] = "alive"]
          /\ stack' = SetTop([Top EXCEPT !.pc = "created"]) \o
                      (IF control[h] THEN <<>>
                       ELSE Route(h, WM_NCCREATE, h) \o Route(h, WM_OTHER, NULL))
    /\ ret' = NoRet
    /\ UNCHANGED <<node_vars, state_vars, assoc, ncb, ghost_vars>>
    /\ UNCHANGED build_vars

\* A push that keeps only the new child.
Pushed_alone(list, child) == <<child>>

\* A push that puts the child in front.
Pushed_front(list, child) == <<child>> \o list

\* self.children.borrow_mut().push(child.clone())
Pushed(list, child) == Append(list, child)

\* CreateWindowExW returned null: no window was born and no notification was
\* sent; CreatedWindow::new returns the error through `?` and new_child
\* returns it before the push.  The node and its boxed dispatch state stay
\* allocated as the creation request left them.
CreateWindowExW_fail ==
    /\ IsTop("CreateWindowExW", "begin")
    /\ stack' = Pop
    /\ ret' = FailedRet(Top.m)
    /\ UNCHANGED <<node_vars, state_vars, native_vars, ncb, ghost_vars>>
    /\ UNCHANGED build_vars

\* CreateWindowExW returned the handle: for a control, hwnd.replace(created_hwnd)
\* and SetWindowSubclass; then new_child pushes the child into the parent's list.
CreateWindowExW_return ==
    /\ IsTop("CreateWindowExW", "created")
    /\ LET h == Top.h
           par == Top.p
       IN /\ hwnd' = IF control[h] THEN [hwnd EXCEPT ![h] = h] ELSE hwnd
          /\ assoc' = IF control[h] THEN [assoc EXCEPT ![h] = h] ELSE assoc
          /\ children' = IF par # NULL THEN [children EXCEPT ![par] = Pushed(@, h)] ELSE children
          /\ born' = [born EXCEPT ![h] = TRUE]
          /\ stack' = Pop
          /\ ret' = CreatedRet(Top.m, h)
    /\ UNCHANGED <<alloc, control, nparent, on_close, on_destroy, background, state_vars, win,
                   ncb, frees, uaf, terminal, faulted>>
    /\ UNCHANGED build_vars

\* ------------------------------------------------------------ user requests
CanRequest == UserTurn /\ ~uaf

\* The nodes user code can name: the main program holds every node; a closure
\* captured the node it is registered on and the children created under it
\* (the closures of make in main.rs).
Captured(n) ==
    /\ n \in 1..alloc
    /\ Depth > 0 => (n = Top.h \/ nparent[n] = Top.h)

\* System::new_main
new_main ==
    /\ CanRequest /\ Depth = 0
    /\ alloc = 0
    /\ alloc' = 1
    /\ state' = [state EXCEPT ![1] = "live"]
    /\ stack' = Push(Frame("CreateWindowExW", 1, "new_main", "begin"))
    /\ ret' = NoRet
    /\ UNCHANGED <<control, nparent, hwnd, on_close, on_destroy, children, background,
                   entry_count, destroy_this, native_vars, ncb, ghost_vars>>
    /\ UNCHANGED build_vars

\* Window::new_child: check_live, then WindowImpl::new with the parent's handle.
new_child(par, ctl) ==
    /\ CanRequest /\ Depth = 0
    /\ alloc < MaxNodes
    /\ par \in 1..alloc
    /\ IF check_live(par) # "Ok"
       THEN /\ ret' = CallRet("new_child", check_live(par))
            /\ UNCHANGED <<node_vars, state_vars, native_vars, stack, ncb, ghost_vars>>
       ELSE LET n == alloc + 1
            IN /\ alloc' = n
               /\ control' = [control EXCEPT ![n] = ctl]
               /\ nparent' = [nparent EXCEPT ![n] = hwnd[par]]
               /\ state' = [state EXCEPT ![n] = "live"]
               /\ stack' = Push([Frame("CreateWindowExW", n, "new_child", "begin")
                                    EXCEPT !.p = par])
               /\ ret' = NoRet
               /\ UNCHANGED <<hwnd, on_close, on_destroy, children, background, entry_count,
                              destroy_this, native_vars, ncb, ghost_vars>>
    /\ UNCHANGED build_vars

\* Window::on_close / Window::on_destroy through WindowImpl::set_callback: the
\* closure is stored only in a live node, and dropped otherwise.  At most
\* limit closures are ever stored.
set_callback_within(name, n, limit) ==
    /\ CanRequest
    /\ ncb < limit
    /\ Captured(n)
    /\ ncb' = IF live(n) THEN ncb + 1 ELSE ncb
    /\ on_close' = IF name = "on_close" /\ live(n)
                   THEN [on_close EXCEPT ![n] = SetSlot(ncb + 1)] ELSE on_close
    /\ on_destroy' = IF name = "on_destroy" /\ live(n)
                     THEN [on_destroy EXCEPT ![n] = SetSlot(ncb + 1)] ELSE on_destroy
    /\ stack' = IF live(n) THEN Written(stack, name, n, SetSlot(ncb + 1)) ELSE stack
    /\ ret' = Ret("Ok", 0, FALSE)
    /\ UNCHANGED <<alloc, control, nparent, hwnd, children, background, state_vars,
                   native_vars, ghost_vars>>
    /\ UNCHANGED build_vars

set_callback(name, n) == set_callback_within(name, n, MaxCallbacks)

\* A destroy that issues the native request whatever the cell holds.
HasHandle_always(handle) == TRUE

\* WindowImpl::destroy: handle != Default::default()
HasHandle(handle) == handle # NULL

\* WindowImpl::destroy: DestroyWindow if the cell holds a handle, else Ok(()).
destroy(n) ==
    /\ CanRequest
    /\ Captured(n)
    /\ IF HasHandle(hwnd[n])
       THEN /\ stack' = Append(IF Depth > 0 THEN SetTop([Top EXCEPT !.req = @ \cup {n}])
                                ELSE stack,
                                Frame("DestroyWindow", hwnd[n], "destroy", "begin"))
            /\ ret' = NoRet
       ELSE /\ ret' = CallRet("destroy", "Ok")
            /\ UNCHANGED stack
    /\ UNCHANGED <<node_vars, state_vars, native_vars, ncb, ghost_vars>>
    /\ UNCHANGED build_vars

\* text, bounds, background, visible, move_offscreen, redraw, snapshot:
\* check_live, then the native call (background stores the colour first and
\* goes through redraw, which checks again).  make recolours its windows while
\* it builds them; a later background request is one on a node that is no
\* longer live.
operation(op, n) ==
    /\ CanRequest
    /\ Captured(n)
    /\ op = "background" => ~live(n)
    /\ IF check_live(n) # "Ok"
       THEN /\ ret' = Ret(check_live(n), 0, FALSE)
            /\ UNCHANGED <<background, stack>>
       ELSE /\ background' = IF op = "background" THEN [background EXCEPT ![n] = 1]
                             ELSE background
            /\ IF op \in SendingOperations
               THEN /\ stack' = Push(Frame("op", n, "operation", "call")) \o
                                 Send(hwnd[n], WM_OTHER)
                    /\ ret' = NoRet
               ELSE /\ ret' = Ret("Ok", 0, TRUE)
                    /\ UNCHANGED stack
    /\ UNCHANGED <<alloc, control, nparent, hwnd, on_close, on_destroy, children, state_vars,
                   native_vars, ncb, ghost_vars>>
    /\ UNCHANGED build_vars

\* The native call of a sending operation has returned.
operation_return ==
    /\ IsTop("op", "call")
    /\ stack' = Pop
    /\ ret' = Ret("Ok", 0, TRUE)
    /\ UNCHANGED <<node_vars, state_vars, native_vars, ncb, ghost_vars>>
    /\ UNCHANGED build_vars

\* System::event_loop (DispatchMessageA): a queued message reaches a window
\* that still exists.  A callback lets a close-request for a window it
\* captured through while it runs.
deliver(h, m) ==
    /\ CanRequest
    /\ Captured(h)
    /\ Send(h, m) # <<>>
    /\ Depth > 0 => m = WM_CLOSE
    /\ stack' = stack \o Send(h, m)
    /\ ret' = NoRet
    /\ UNCHANGED <<node_vars, state_vars, native_vars, ncb, ghost_vars>>
    /\ UNCHANGED build_vars

\* The end of a callback body, by return or by panic: the CallbackRef is
\* dropped (on a panic by the unwind, which catch_unwind of the enclosing
\* dispatch call stops before the default handler is reached) and the dispatch
\* call goes on.
callback_end(panic) ==
    /\ Depth > 1 /\ ~uaf
    /\ Top.t = "cb"
    /\ LET n == Top.h
           name == Top.m
           after == DropRef(Slot(name, n), Top.f)
           below == stack[Depth - 1]
       IN /\ on_close' = IF name = "on_close" THEN [on_close EXCEPT ![n] = after] ELSE on_close
          /\ on_destroy' = IF name = "on_destroy" THEN [on_destroy EXCEPT ![n] = after]
                           ELSE on_destroy
          /\ stack' = [Pop EXCEPT ![Depth - 1] = [below EXCEPT !.pc = "post", !.err = panic,
                                                               !.def = IF panic THEN 0 ELSE @,
                                                               !.req = Top.req]]
    /\ ret' = NoRet
    /\ UNCHANGED <<alloc, control, nparent, hwnd, children, background, state_vars,
                   native_vars, ncb, ghost_vars>>
    /\ UNCHANGED build_vars

callback_return == callback_end(FALSE)

callback_panic == callback_end(TRUE)

\* ------------------------------------------------------------------- Next
Next ==
    \/ new_main
    \/ \E par \in ChildParents : new_child(par, ChildControl(alloc + 1))
    \/ \E n \in Nodes : set_callback("on_close", n)
    \/ \E n \in Nodes : set_callback("on_destroy", n)
    \/ \E n \in Nodes : destroy(n)
    \/ \E op \in EnumeratedOperations, n \in Nodes : operation(op, n)
    \/ operation_return
    \/ \E h \in Nodes, m \in QueuedMessages : deliver(h, m)
    \/ callback_return
    \/ callback_panic
    \/ CreateWindowExW_begin
    \/ CreateWindowExW_return
    \/ DestroyWindow_begin
    \/ DestroyWindow_children
    \/ DestroyWindow_finish
    \/ static_wndproc_entry
    \/ static_wndproc_default_return
    \/ static_subclass_wndproc_entry
    \/ wndproc_callback
    \/ wndproc_ncdestroy
    \/ wndproc_other
    \/ static_wndproc_exit

Spec == Init /\ [][Next]_vars

\* A pre-creation notification that arrives again, carrying the state the
\* router still owns for that window (SendMessageW from user code; the safety
\* contract of static_wndproc only asks that lpCreateParams be p).
send_nccreate(h) ==
    /\ CanRequest
    /\ h \in 1..alloc
    /\ ~control[h]
    /\ win[h] \in {"alive", "destroying"}
    /\ state[h] = "live"
    /\ stack' = stack \o Route(h, WM_NCCREATE, h)
    /\ ret' = NoRet
    /\ UNCHANGED <<node_vars, state_vars, native_vars, ncb, ghost_vars>>
    /\ UNCHANGED build_vars

\* The program that sends it registers one closure more: the cell of a window
\* that still exists is Absent while its state is live only after a fault in a
\* nested call, which takes a callback inside a callback.
NextResend ==
    \/ Next
    \/ \E n \in Nodes : set_callback_within("on_close", n, MaxCallbacks + 1)
    \/ \E h \in Nodes : send_nccreate(h)

SpecResend == Init /\ [][NextResend]_vars

\* The main program on a system whose native creation requests can fail; it
\* builds and destroys its windows and leaves their properties alone.
NextCreate ==
    \/ new_main
    \/ \E par \in ChildParents : new_child(par, ChildControl(alloc + 1))
    \/ \E n \in Nodes : set_callback("on_close", n)
    \/ \E n \in Nodes : set_callback("on_destroy", n)
    \/ \E n \in Nodes : destroy(n)
    \/ \E h \in Nodes, m \in QueuedMessages : deliver(h, m)
    \/ callback_return
    \/ callback_panic
    \/ CreateWindowExW_begin
    \/ CreateWindowExW_fail
    \/ CreateWindowExW_return
    \/ DestroyWindow_begin
    \/ DestroyWindow_children
    \/ DestroyWindow_finish
    \/ static_wndproc_entry
    \/ static_wndproc_default_return
    \/ static_subclass_wndproc_entry
    \/ wndproc_callback
    \/ wndproc_ncdestroy
    \/ wndproc_other
    \/ static_wndproc_exit

SpecCreate == Init /\ [][NextCreate]_vars

\* A program that destroys only its main window and goes on using the handles
\* it holds of the children: a child is destroyed by the native runtime alone,
\* with its parent.
NextCascade ==
    \/ new_main
    \/ \E par \in ChildParents : new_child(par, ChildControl(alloc + 1))
    \/ \E n \in Nodes : set_callback("on_close", n)
    \/ \E n \in Nodes : set_callback("on_destroy", n)
    \/ \E n \in ChildParents : destroy(n)
    \/ \E op \in EnumeratedOperations, n \in Nodes \ ChildParents : operation(op, n)
    \/ operation_return
    \/ \E h \in Nodes, m \in QueuedMessages : deliver(h, m)
    \/ callback_return
    \/ callback_panic
    \/ CreateWindowExW_begin
    \/ CreateWindowExW_return
    \/ DestroyWindow_begin
    \/ DestroyWindow_children
    \/ DestroyWindow_finish
    \/ static_wndproc_entry
    \/ static_wndproc_default_return
    \/ static_subclass_wndproc_entry
    \/ wndproc_callback
    \/ wndproc_ncdestroy
    \/ wndproc_other
    \/ static_wndproc_exit

SpecCascade == Init /\ [][NextCascade]_vars

\* ------------------------------------------------ the version with `this`
\* src/src/comm_ctrl.rs: the native runtime holds a pointer to the WindowImpl
\* itself, the node keeps a Weak to itself (this), and a callback is handed a
\* strong handle made from it.  There is no StaticWndprocState, no entry
\* counter and no catch_unwind in this version; its callbacks return.

\* An upgrade that always yields a handle.
Upgrade_always(count) == TRUE

\* WindowImpl::this: self.this.get()?.upgrade()? is Some iff a strong handle
\* exists.
Upgrade(count) == count > 0

\* The strong handles of n the program holds: all but the temporary handles
\* of the running callbacks of n.
UserHandles(n) == strong[n] - Cardinality({i \in 1..Depth : stack[i].t = "cb" /\ stack[i].h = n})

\* System::main_window: WindowImpl::new allocates the Rc, sets this to its Weak
\* and calls CreateWindowExW.
main_window ==
    /\ CanRequest /\ Depth = 0
    /\ alloc = 0
    /\ alloc' = 1
    /\ strong' = [strong EXCEPT ![1] = 1]
    /\ stack' = Push(Frame("CreateWindowExW", 1, "main_window", "begin"))
    /\ ret' = NoRet
    /\ UNCHANGED <<control, nparent, hwnd, on_close, on_destroy, children, background,
                   state_vars, native_vars, ncb, config_vars, dropped, ghost_vars>>

\* WindowImpl::static_wndproc up to the call of wndproc: window is
\* lpCreateParams on WM_NCCREATE (hwnd.replace(handle), GWLP_USERDATA set), else
\* GWLP_USERDATA; null goes to DefWindowProcW.
WindowImpl_static_wndproc ==
    /\ IsTop("disp", "entry")
    /\ ~Top.sub
    /\ LET h == Top.h
           m == Top.m
           window == Resolve(h, m, Top.p)
       IN IF window = NULL
          THEN /\ IF m = WM_CLOSE
                  THEN /\ stack' = Append(SetTop([Top EXCEPT !.pc = "defret", !.def = 1]),
                                          Frame("DestroyWindow", h, "none", "begin"))
                       /\ ret' = NoRet
                  ELSE /\ stack' = Pop
                       /\ ret' = DispatchRet(h, "default", 1)
               /\ UNCHANGED <<node_vars, native_vars, ghost_vars>>
          ELSE /\ hwnd' = IF m = WM_NCCREATE THEN [hwnd EXCEPT ![window] = h] ELSE hwnd
               /\ assoc' = IF m = WM_NCCREATE THEN [assoc EXCEPT ![h] = window] ELSE assoc
               /\ uaf' = dropped[window]
               /\ stack' = SetTop([Top EXCEPT !.p = window, !.pc = "user", !.flag = FALSE])
               /\ ret' = NoRet
               /\ UNCHANGED <<alloc, control, nparent, on_close, on_destroy, children,
                              background, win, frees, born, terminal, faulted>>
    /\ UNCHANGED <<state_vars, ncb, build_vars>>

\* WindowImpl::wndproc, WM_CLOSE and WM_DESTROY arms:
\* if let Some(this) = self.this() { self.events.<slot>.with(|f| f(&this)); }
\* Without a strong handle nothing is invoked and the slot is not touched; a
\* handle that finds no closure to run is dropped again at once.
WindowImpl_wndproc_callback ==
    /\ IsTop("disp", "user")
    /\ SlotFor(Top.m) # "none"
    /\ LET p == Top.p
           name == SlotFor(Top.m)
           this == Upgrade(strong[p])
           taken == IF this THEN Taken(Slot(name, p)) ELSE 0
           left == BorrowedSlot(Slot(name, p))
           after == IF ~this THEN Slot(name, p)
                    ELSE IF taken # 0 THEN left ELSE DropRef(left, 0)
           d == IF Consumed(Top.flag, Top.m) THEN 0 ELSE 1
       IN /\ on_close' = IF name = "on_close" THEN [on_close EXCEPT ![p] = after] ELSE on_close
          /\ on_destroy' = IF name = "on_destroy" THEN [on_destroy EXCEPT ![p] = after]
                           ELSE on_destroy
          /\ strong' = IF taken # 0 THEN [strong EXCEPT ![p] = @ + 1] ELSE strong
          /\ stack' = IF taken # 0
                      THEN Append(SetTop([Top EXCEPT !.pc = "incb", !.f = taken, !.def = d]),
                                  [Frame("cb", p, name, "run") EXCEPT !.f = taken])
                      ELSE SetTop([Top EXCEPT !.pc = "post", !.def = d])
          /\ ret' = NoRet
    /\ UNCHANGED <<alloc, control, nparent, hwnd, children, background, state_vars,
                   native_vars, ncb, config_vars, dropped, ghost_vars>>

\* The callback returns: the CallbackRef is dropped at the end of the
\* statement, then this at the end of the block; when it was the last strong
\* handle, Drop for WindowImpl runs before wndproc returns.
WindowImpl_callback_return ==
    /\ Depth > 1 /\ ~uaf
    /\ Top.t = "cb"
    /\ LET n == Top.h
           name == Top.m
           after == DropRef(Slot(name, n), Top.f)
           below == stack[Depth - 1]
           rest == [Pop EXCEPT ![Depth - 1] = [below EXCEPT !.pc = "post", !.req = Top.req]]
       IN /\ on_close' = IF name = "on_close" THEN [on_close EXCEPT ![n] = after] ELSE on_close
          /\ on_destroy' = IF name = "on_destroy" THEN [on_destroy EXCEPT ![n] = after]
                           ELSE on_destroy
          /\ strong' = [strong EXCEPT ![n] = @ - 1]
          /\ stack' = IF strong[n] = 1
                      THEN Append(rest, Frame("drop", n, "this", "destroy"))
                      ELSE rest
    /\ ret' = NoRet
    /\ UNCHANGED <<alloc, control, nparent, hwnd, children, background, state_vars,
                   native_vars, ncb, config_vars, dropped, ghost_vars>>

\* WindowImpl::static_wndproc after wndproc:
\* unwrap_or_else(|| DefWindowProcW(..)) and return.
WindowImpl_static_wndproc_return ==
    /\ IsTop("disp", "post")
    /\ stack' = Pop
    /\ ret' = DispatchRet(Top.h, IF Top.def = 0 THEN "0" ELSE "default", Top.def)
    /\ UNCHANGED <<node_vars, state_vars, native_vars, ncb, build_vars, ghost_vars>>

\* WindowImpl::new when CreateWindowExW returns null: no window was born and
\* no notification was sent; the early return drops the only Rc, which runs
\* Drop for WindowImpl on a node that was never created.
WindowImpl_new_fail ==
    /\ IsTop("CreateWindowExW", "begin")
    /\ strong' = [strong EXCEPT ![Top.h] = 0]
    /\ stack' = Append(Pop, Frame("drop", Top.h, "new", "destroy"))
    /\ ret' = FailedRet(Top.m)
    /\ UNCHANGED <<node_vars, state_vars, native_vars, ncb, config_vars, dropped, ghost_vars>>

\* User code drops a strong handle it holds; the last one runs Drop for
\* WindowImpl.
drop_handle(n) ==
    /\ CanRequest
    /\ Captured(n)
    /\ UserHandles(n) > 0
    /\ strong' = [strong EXCEPT ![n] = @ - 1]
    /\ stack' = IF strong[n] = 1 THEN Push(Frame("drop", n, "handle", "destroy")) ELSE stack
    /\ ret' = NoRet
    /\ UNCHANGED <<node_vars, state_vars, native_vars, ncb, config_vars, dropped, ghost_vars>>

\* Drop for WindowImpl: self.destroy(), whose error is only printed.
WindowImpl_drop ==
    /\ IsTop("drop", "destroy")
    /\ stack' = IF HasHandle(hwnd[Top.h])
                THEN Append(SetTop([Top EXCEPT !.pc = "release"]),
                            Frame("DestroyWindow", hwnd[Top.h], "drop", "begin"))
                ELSE SetTop([Top EXCEPT !.pc = "release"])
    /\ ret' = NoRet
    /\ UNCHANGED <<node_vars, state_vars, native_vars, ncb, build_vars, ghost_vars>>

\* The fields of the WindowImpl are dropped and its memory is released.
WindowImpl_release ==
    /\ IsTop("drop", "release")
    /\ dropped' = [dropped EXCEPT ![Top.h] = TRUE]
    /\ on_close' = [on_close EXCEPT ![Top.h] = Empty]
    /\ on_destroy' = [on_destroy EXCEPT ![Top.h] = Empty]
    /\ children' = [children EXCEPT ![Top.h] = <<>>]
    /\ stack' = Pop
    /\ ret' = NoRet
    /\ UNCHANGED <<alloc, control, nparent, hwnd, background, state_vars, native_vars, ncb,
                   config_vars, strong, ghost_vars>>

\* A program of one window of the version with `this`.
NextWeak ==
    \/ main_window
    \/ \E n \in Nodes : set_callback("on_close", n)
    \/ \E n \in Nodes : set_callback("on_destroy", n)
    \/ \E n \in Nodes : destroy(n)
    \/ \E n \in Nodes : drop_handle(n)
    \/ \E h \in Nodes, m \in QueuedMessages : deliver(h, m)
    \/ CreateWindowExW_begin
    \/ WindowImpl_new_fail
    \/ CreateWindowExW_return
    \/ DestroyWindow_begin
    \/ DestroyWindow_children
    \/ DestroyWindow_finish
    \/ WindowImpl_static_wndproc
    \/ WindowImpl_wndproc_callback
    \/ WindowImpl_callback_return
    \/ wndproc_ncdestroy
    \/ wndproc_other
    \/ WindowImpl_static_wndproc_return
    \/ WindowImpl_drop
    \/ WindowImpl_release

SpecWeak == Init /\ [][NextWeak]_vars

\* The main program built with either version of the router.
SpecRouters == InitRouters /\ [][Next]_vars

\* A program of one window whose callbacks register replacements on the slot
\* they were invoked from: one closure more than Spec stores, so that set and
\* invoke nest on the same slot.
NextSlots ==
    \/ new_main
    \/ \E n \in Nodes : set_callback_within("on_close", n, MaxCallbacks + 1)
    \/ \E n \in Nodes : set_callback_within("on_destroy", n, MaxCallbacks + 1)
    \/ \E n \in Nodes : destroy(n)
    \/ \E h \in Nodes, m \in QueuedMessages : deliver(h, m)
    \/ callback_return
    \/ callback_panic
    \/ CreateWindowExW_begin
    \/ CreateWindowExW_return
    \/ DestroyWindow_begin
    \/ DestroyWindow_children
    \/ DestroyWindow_finish
    \/ static_wndproc_entry
    \/ static_wndproc_default_return
    \/ wndproc_callback
    \/ wndproc_ncdestroy
    \/ wndproc_other
    \/ static_wndproc_exit

SpecSlots == Init /\ [][NextSlots]_vars

\* A program of one window that nests its dispatch calls as deep as the entry
\* counter can count: callbacks register further closures and let messages
\* through while they run.
NextCounter ==
    \/ new_main
    \/ \E n \in Nodes : set_callback_within("on_close", n, MaxCallbacks + 2)
    \/ \E n \in Nodes : set_callback_within("on_destroy", n, MaxCallbacks + 2)
    \/ \E n \in Nodes : destroy(n)
    \/ \E h \in Nodes, m \in QueuedMessages : deliver(h, m)
    \/ callback_return
    \/ callback_panic
    \/ CreateWindowExW_begin
    \/ CreateWindowExW_return
    \/ DestroyWindow_begin
    \/ DestroyWindow_children
    \/ DestroyWindow_finish
    \/ static_wndproc_entry
    \/ static_wndproc_default_return
    \/ wndproc_callback
    \/ wndproc_ncdestroy
    \/ wndproc_other
    \/ static_wndproc_exit

SpecCounter == Init /\ [][NextCounter]_vars

\* Drop for CreatedWindow: the program releases the holder of window n, and
\* DestroyWindow is called if the cell holds a handle.
CreatedWindow_drop(n) ==
    /\ CanRequest
    /\ Captured(n)
    /\ born[n] /\ ~dropped[n]
    /\ dropped' = [dropped EXCEPT ![n] = TRUE]
    /\ IF HasHandle(hwnd[n])
       THEN /\ stack' = Append(stack, Frame("DestroyWindow", hwnd[n], "drop", "begin"))
            /\ ret' = NoRet
       ELSE /\ ret' = CallRet("drop", "Ok")
            /\ UNCHANGED stack
    /\ UNCHANGED <<node_vars, state_vars, native_vars, ncb, config_vars, strong, ghost_vars>>

\* A program that releases the holders of its windows: it builds windows,
\* registers callbacks, destroys and releases; a window whose holder is
\* released is not named by the program any more.
NextRelease ==
    \/ new_main
    \/ \E par \in ChildParents : ~dropped[par] /\ new_child(par, ChildControl(alloc + 1))
    \/ \E n \in Nodes : ~dropped[n] /\ set_callback("on_close", n)
    \/ \E n \in Nodes : ~dropped[n] /\ set_callback("on_destroy", n)
    \/ \E n \in Nodes : ~dropped[n] /\ destroy(n)
    \/ \E n \in Nodes : CreatedWindow_drop(n)
    \/ \E h \in Nodes, m \in QueuedMessages : deliver(h, m)
    \/ callback_return
    \/ callback_panic
    \/ CreateWindowExW_begin
    \/ CreateWindowExW_return
    \/ DestroyWindow_begin
    \/ DestroyWindow_children
    \/ DestroyWindow_finish
    \/ static_wndproc_entry
    \/ static_wndproc_default_return
    \/ static_subclass_wndproc_entry
    \/ wndproc_callback
    \/ wndproc_ncdestroy
    \/ wndproc_other
    \/ static_wndproc_exit

SpecRelease == Init /\ [][NextRelease]_vars

\* ------------------------------------- CallbackCell::set and the old value
\* The RefMut of `*self.0.borrow_mut() = ..` in CallbackCell::set lives to the
\* end of the statement: the storage of slot name of node n is exclusively
\* borrowed while the assignment drops the value it replaces.
RefCellHeld(name, n) ==
    \E i \in 1..Depth : stack[i].t = "dtor" /\ stack[i].h = n /\ stack[i].m = name

\* RefCell::borrow_mut: panics when the cell is already borrowed.
borrow_mut(held) == IF held THEN "BorrowMutError" ELSE "Ok"

\* The destructor of a replaced closure is running on top of the stack.
InDestructor == Depth > 0 /\ ~uaf /\ Top.t = "dtor" /\ Top.pc = "run"

\* CallbackCell::set on slot name of node n by the code that has control: a
\* borrow conflict panics; a Filled slot keeps its storage borrowed while the
\* destructor of the old closure runs, and the new value is written when that
\* destructor has returned; any other slot is written at once.
CallbackCell_set(name, n) ==
    /\ ncb < MaxCallbacks + 2
    /\ live(n)
    /\ IF borrow_mut(RefCellHeld(name, n)) # "Ok"
       THEN /\ stack' = SetTop([Top EXCEPT !.pc = "panic"])
            /\ ret' = Ret(borrow_mut(RefCellHeld(name, n)), 0, FALSE)
            /\ UNCHANGED <<on_close, on_destroy, ncb>>
       ELSE /\ ncb' = ncb + 1
            /\ IF Slot(name, n).st = "Filled"
               THEN /\ stack' = Append(stack, [Frame("dtor", n, name, "run")
                                                  EXCEPT !.f = Slot(name, n).f,
                                                         !.w = SetSlot(ncb + 1)])
                    /\ ret' = NoRet
                    /\ UNCHANGED <<on_close, on_destroy>>
               ELSE /\ on_close' = IF name = "on_close"
                                   THEN [on_close EXCEPT ![n] = SetSlot(ncb + 1)] ELSE on_close
                    /\ on_destroy' = IF name = "on_destroy"
                                     THEN [on_destroy EXCEPT ![n] = SetSlot(ncb + 1)]
                                     ELSE on_destroy
                    /\ stack' = Written(stack, name, n, SetSlot(ncb + 1))
                    /\ ret' = Ret("Ok", 0, FALSE)
    /\ UNCHANGED <<alloc, control, nparent, hwnd, children, background, state_vars,
                   native_vars, ghost_vars>>
    /\ UNCHANGED build_vars

\* Window::on_close / Window::on_destroy called by the program or by a
\* callback.
set_replacing(name, n) == CanRequest /\ Captured(n) /\ CallbackCell_set(name, n)

\* Window::on_close / Window::on_destroy called by the destructor of a
\* replaced closure (a captured value whose Drop registers a callback on the
\* window of the closure).
set_in_destructor(name) == InDestructor /\ CallbackCell_set(name, Top.h)

\* The destructor of the replaced closure has returned: the assignment writes
\* the new value and the RefMut is released.
set_finish ==
    /\ InDestructor
    /\ on_close' = IF Top.m = "on_close" THEN [on_close EXCEPT ![Top.h] = Top.w] ELSE on_close
    /\ on_destroy' = IF Top.m = "on_destroy" THEN [on_destroy EXCEPT ![Top.h] = Top.w]
                     ELSE on_destroy
    /\ stack' = Written(Pop, Top.m, Top.h, Top.w)
    /\ ret' = Ret("Ok", 0, FALSE)
    /\ UNCHANGED <<alloc, control, nparent, hwnd, children, background, state_vars,
                   native_vars, ncb, ghost_vars>>
    /\ UNCHANGED build_vars

\* A program of one window whose closures own values with destructors of
\* their own.
NextBorrow ==
    \/ new_main
    \/ \E n \in Nodes : set_replacing("on_close", n)
    \/ \E n \in Nodes : set_replacing("on_destroy", n)
    \/ set_in_destructor("on_close")
    \/ set_in_destructor("on_destroy")
    \/ set_finish
    \/ \E n \in Nodes : destroy(n)
    \/ \E h \in Nodes, m \in QueuedMessages : deliver(h, m)
    \/ callback_return
    \/ callback_panic
    \/ CreateWindowExW_begin
    \/ CreateWindowExW_return
    \/ DestroyWindow_begin
    \/ DestroyWindow_children
    \/ DestroyWindow_finish
    \/ static_wndproc_entry
    \/ static_wndproc_default_return
    \/ wndproc_callback
    \/ wndproc_ncdestroy
    \/ wndproc_other
    \/ static_wndproc_exit

SpecBorrow == Init /\ [][NextBorrow]_vars

\* ------------------------------------------------- codexform: the extractor
\* The extractor is handed one `let` statement.
InitItem ==
    /\ InitProgram /\ router = "object_wrappers"
    /\ statement \in Statements
    /\ item = Unclassified

\* The extractor classifies its statement.
classify ==
    /\ item = Unclassified
    /\ item' = Item_new(statement)
    /\ UNCHANGED <<node_vars, state_vars, native_vars, stack, ret, ncb, router, statement,
                   strong, dropped, ghost_vars>>

NextItem == classify

SpecItem == InitItem /\ [][NextItem]_vars

\* ---------------------------------------------------------------- properties
\* The dispatch calls of state n that are between their increment and their
\* decrement of entry_count.
ActiveFrames(n) ==
    {i \in 1..Depth : stack[i].t = "disp" /\ stack[i].p = n
                       /\ stack[i].pc \in {"user", "incb", "post"}}

\* C1: a StaticWndprocState is deallocated at most once; when it has been
\* deallocated its entry counter is 0, its destroy_this flag is set and no
\* dispatch frame for it is on the call stack, and no freed state is ever
\* dereferenced, for every nesting of calls through both entry points.
C1_FreedOnceWhenIdle ==
    /\ ~uaf
    /\ \A n \in Nodes :
          /\ frees[n] <= 1
          /\ (state[n] = "freed") = (frees[n] = 1)
          /\ state[n] = "freed" =>
                entry_count[n] = 0 /\ destroy_this[n] /\ ActiveFrames(n) = {}

\* A state was freed by the outermost of two nested calls: the inner call
\* handled the terminal notification of a window destroyed from its own
\* on_close callback.
C1_Witness ==
    \E n \in Nodes :
        /\ state[n] = "freed" /\ frees[n] = 1 /\ terminal[n] /\ ~faulted[n]
        /\ Depth = 0 /\ ret.h = n /\ ret.v = "0"

\* C2: the entry counter of a live state equals the number of its dispatch
\* frames on the call stack (so it is 0 only when no call is active and never
\* negative), and once the state is pending teardown with no call active it has
\* been deallocated exactly once.
C2_CounterCountsFrames ==
    \A n \in Nodes :
        /\ entry_count[n] >= 0
        /\ state[n] = "live" => entry_count[n] = Cardinality(ActiveFrames(n))
        /\ (destroy_this[n] /\ ActiveFrames(n) = {}) => frees[n] = 1

\* Two calls of the same state are nested: user logic of the outer one
\* triggered the inner one.
C2_Witness ==
    \E n \in Nodes : entry_count[n] = 2 /\ Cardinality(ActiveFrames(n)) = 2

\* An on_close callback frame that has called destroy() on its own node.
SelfDestroying(i) ==
    stack[i].t = "cb" /\ stack[i].m = "on_close" /\ stack[i].h \in stack[i].req

\* C3: while an on_close callback that called destroy() on its own node is on
\* the stack, the close-request dispatch that invoked it is still the frame
\* below it, the dispatch state is live and not freed, and the same closure is
\* not running a second time above it; when the callback has control again in
\* the outermost dispatch the cell is Absent and the terminal notification has
\* been delivered; the returning outermost close dispatch still holds the
\* state live, pending teardown, and after it returned the state has been
\* freed exactly once.
C3_SelfDestroyInClose ==
    /\ \A i \in 1..Depth : SelfDestroying(i) =>
          LET n == stack[i].h
          IN /\ i > 1
             /\ stack[i - 1].t = "disp" /\ stack[i - 1].m = WM_CLOSE
             /\ stack[i - 1].p = n /\ stack[i - 1].pc = "incb"
             /\ state[n] = "live" /\ frees[n] = 0
             /\ \A j \in (i + 1)..Depth : ~(stack[j].t = "cb" /\ stack[j].f = stack[i].f)
             /\ (i = Depth /\ i = 2) =>
                    hwnd[n] = NULL /\ (~faulted[n] => terminal[n] /\ win[n] = "dead")
    /\ (Depth = 1 /\ stack[1].t = "disp" /\ stack[1].pc = "post" /\ stack[1].m = WM_CLOSE
           /\ stack[1].p \in stack[1].req) =>
          LET n == stack[1].p
          IN state[n] = "live" /\ frees[n] = 0 /\ destroy_this[n] /\ entry_count[n] = 1
    /\ \A n \in Nodes : (Depth = 0 /\ ret.h = n /\ destroy_this[n]) => frees[n] = 1

\* The on_close callback of n has control again after its destroy() of n ran
\* the whole teardown nested inside the close dispatch; the state is still live.
C3_Witness ==
    /\ Depth = 2 /\ SelfDestroying(2)
    /\ terminal[Top.h] /\ state[Top.h] = "live" /\ entry_count[Top.h] = 1
    /\ ret = Ret("Ok", 0, TRUE)

\* The creation request of n is still running.
Creating(n) == \E i \in 1..Depth : stack[i].t = "CreateWindowExW" /\ stack[i].h = n

\* The terminal notification of n is being delivered or has been delivered.
TerminalReached(n) ==
    \/ terminal[n]
    \/ \E i \in 1..Depth :
          stack[i].t = "DestroyWindow" /\ stack[i].h = n /\ stack[i].pc = "finish"

C5_AbsentPresentAbsent ==
    \A n \in Nodes :
        /\ hwnd[n] \in {NULL, n}
        /\ (destroy_this[n] \/ terminal[n]) => hwnd[n] = NULL

\* C6: a dispatch call whose user logic faulted returns to the native runtime
\* by popping only its own frame (nothing below it is unwound), with the
\* result 0 and without having run the default handler, and leaves the node
\* Destroyed: cell Absent, destroy_this set, association of the handle
\* removed; this is the step of both entry points.
C6_FaultContained ==
    [][(Depth > 0 /\ Top.t = "disp" /\ Top.pc = "post" /\ Top.err) =>
          /\ stack' = Pop
          /\ ret' = DispatchRet(Top.h, "0", 0)
          /\ hwnd'[Top.p] = NULL
          /\ destroy_this'[Top.p]
          /\ assoc'[Top.h] = NULL
          /\ faulted'[Top.p]]_vars

\* The on_close callback of a native control faulted: the subclass entry
\* point returned 0 and the node is Destroyed while its window still exists.
C6_Witness ==
    \E n \in Nodes :
        /\ control[n] /\ faulted[n] /\ ret = DispatchRet(n, "0", 0)
        /\ hwnd[n] = NULL /\ destroy_this[n] /\ assoc[n] = NULL /\ win[n] = "alive"

\* C7: once destroy_this of a state is set it stays set, no handle is
\* associated with the state any more, its entry counter and its active
\* frames never grow again, and a message that reaches the primary entry
\* point for its handle goes to the default handler without user logic.
C7_NoDispatchAfterTeardown ==
    [][\A p \in Nodes : destroy_this[p] =>
          /\ destroy_this'[p]
          /\ \A h \in Nodes : assoc[h] # p /\ assoc'[h] # p
          /\ entry_count'[p] <= entry_count[p]
          /\ ActiveFrames(p)' \subseteq ActiveFrames(p)
          /\ (Depth > 0 /\ Top.t = "disp" /\ Top.pc = "entry" /\ Top.h = p) =>
                \/ stack' = Pop /\ ret' = DispatchRet(p, "default", 1)
                \/ /\ Top.m = WM_CLOSE
                   /\ Depth' = Depth + 1
                   /\ stack'[Depth].pc = "defret"
                   /\ stack'[Depth'].t = "DestroyWindow"]_vars

\* A message for the window of a faulted main node, whose state is already
\* freed, was answered by the default handler alone.
C7_Witness ==
    \E n \in Nodes :
        /\ destroy_this[n] /\ faulted[n] /\ frees[n] = 1 /\ win[n] = "alive"
        /\ Depth = 0 /\ ret = DispatchRet(n, "default", 1)

\* C8: an on_close callback frame always sits directly on the close-request
\* dispatch call of its node that invoked it, and that call invokes it only
\* once (on leaving its user-logic entry); at the moment of the invocation the
\* window exists, its terminal notification has neither been delivered nor is
\* being delivered, so close precedes terminal.
C8_OnCloseOncePerClose ==
    /\ [](\A i \in 1..Depth : (stack[i].t = "cb" /\ stack[i].m = "on_close") =>
             /\ i > 1
             /\ stack[i - 1].t = "disp" /\ stack[i - 1].m = WM_CLOSE
             /\ stack[i - 1].p = stack[i].h /\ stack[i - 1].pc = "incb"
             /\ stack[i - 1].f = stack[i].f)
    /\ [][(Depth' = Depth + 1 /\ stack'[Depth'].t = "cb" /\ stack'[Depth'].m = "on_close") =>
             LET n == stack'[Depth'].h
             IN /\ Depth > 0 /\ Top.t = "disp" /\ Top.pc = "user"
                /\ Top.m = WM_CLOSE /\ Top.p = n
                /\ stack'[Depth].pc = "incb"
                /\ ~terminal[n] /\ win[n] \in {"alive", "destroying"}
                /\ \A j \in 1..Depth :
                      ~(stack[j].t = "disp" /\ stack[j].h = n /\ stack[j].m = WM_NCDESTROY)]_vars

\* While the on_close callback of n runs, a second close-request reached n and
\* its dispatch call invoked nothing.
C8_Witness ==
    \E i \in 1..Depth : \E j \in (i + 1)..Depth :
        /\ stack[i].t = "cb" /\ stack[i].m = "on_close"
        /\ stack[j].t = "disp" /\ stack[j].m = WM_CLOSE /\ stack[j].p = stack[i].h
        /\ stack[j].pc = "post" /\ stack[j].f = 0

\* The children created under m.
ChildrenOf(m) == {a \in 1..alloc : nparent[a] = m /\ a # m}

\* The callback or dispatch frame fr of m has called destroy() on exactly the
\* children of m, of which there are at least two.
DestroyedItsChildren(fr) ==
    fr.req = ChildrenOf(fr.h) /\ Cardinality(fr.req) >= 2

\* C9: in the outermost close dispatch of a main node M whose on_close
\* callback has called destroy() on all its children: when the callback has
\* control again, every one of them is Destroyed (cell Absent, terminal
\* notification delivered, window gone, state freed once) and still in M's
\* children list, which holds all the children in creation order, and M is
\* Live; and when the close dispatch then returns, M is still Live with the
\* same list, its state neither torn down nor freed.
C9_ChildrenDestroyedInParentClose ==
    /\ [](LET fr == stack[2]
               m == fr.h
           IN (Depth = 2 /\ fr.t = "cb" /\ fr.m = "on_close" /\ DestroyedItsChildren(fr)
                 /\ win[m] = "alive" /\ ~destroy_this[m]) =>
                /\ hwnd[m] = m
                /\ children[m] = [k \in 1..(alloc - 1) |-> k + 1]
                /\ \A a \in fr.req :
                      /\ hwnd[a] = NULL
                      /\ frees[a] = 1
                      /\ ~faulted[a] => terminal[a] /\ win[a] = "dead")
    /\ [][(Depth = 1 /\ Top.t = "disp" /\ Top.pc = "post" /\ Top.m = WM_CLOSE
              /\ ~Top.err /\ Top.h = Top.p /\ DestroyedItsChildren(Top)
              /\ win[Top.p] = "alive" /\ ~destroy_this[Top.p]) =>
             /\ hwnd'[Top.p] = Top.p
             /\ children'[Top.p] = children[Top.p]
             /\ ~destroy_this'[Top.p]
             /\ state'[Top.p] = "live"
             /\ ret' = DispatchRet(Top.h, "0", 0)]_vars

\* M's on_close callback has destroyed both children and has control again.
C9_Witness ==
    /\ Depth = 2 /\ Top.t = "cb" /\ Top.m = "on_close" /\ Top.h = 1
    /\ Top.req = {2, 3}
    /\ terminal[2] /\ terminal[3] /\ hwnd[2] = NULL /\ hwnd[3] = NULL
    /\ hwnd[1] = 1 /\ children[1] = <<2, 3>> /\ win[1] = "alive"

\* C10: text, bounds, background, visible, move_offscreen, redraw and snapshot
\* on a node whose cell is Absent return Destroyed, issue no native call (none
\* reported, no frame pushed) and leave the background colour, the children
\* lists, the callback slots and the cells unchanged.
C10_DeadNodeOperations ==
    [][CanRequest =>
          \A n \in Nodes :
             (hwnd[n] = NULL /\ \E op \in Operations : operation(op, n)) =>
                /\ ret' = Ret("Destroyed", 0, FALSE)
                /\ stack' = stack
                /\ background' = background
                /\ children' = children
                /\ on_close' = on_close /\ on_destroy' = on_destroy
                /\ hwnd' = hwnd]_vars

\* An operation was refused on a node that is Destroyed, from inside a
\* callback that runs after the node's window is gone.
C10_Witness ==
    /\ Depth > 0 /\ Top.t = "cb"
    /\ ret = Ret("Destroyed", 0, FALSE)
    /\ \E n \in 1..alloc : hwnd[n] = NULL /\ win[n] = "dead"

\* C11: new_child on a parent whose cell is Absent returns Destroyed, issues
\* no native creation request (no frame pushed, no window born), allocates no
\* node and no dispatch state, and leaves every children list unchanged.
C11_ChildOfDeadParent ==
    [][\A par \in ChildParents :
          (hwnd[par] = NULL /\ new_child(par, ChildControl(alloc + 1))) =>
             /\ ret' = CallRet("new_child", "Destroyed")
             /\ stack' = stack
             /\ win' = win
             /\ alloc' = alloc
             /\ state' = state /\ entry_count' = entry_count
             /\ children' = children]_vars

\* new_child was refused on the main window after its destruction completed,
\* while a node was still available for the child.
C11_Witness ==
    /\ ret = CallRet("new_child", "Destroyed")
    /\ Depth = 0 /\ alloc < MaxNodes
    /\ hwnd[1] = NULL /\ terminal[1] /\ state[alloc + 1] = "none" /\ win[alloc + 1] = "none"

\* C12: destroy() on a node whose cell is Absent returns success, issues no
\* native destruction request (no frame pushed, no window touched) and changes
\* no state; its only effect is the fixed result, so any number of further
\* destroy() calls leave the program where the first one left it.
C12_DestroyOfDeadNode ==
    [][\A n \in Nodes :
          (hwnd[n] = NULL /\ destroy(n)) =>
             /\ ret' = CallRet("destroy", "Ok")
             /\ stack' = stack
             /\ UNCHANGED <<node_vars, state_vars, native_vars, ncb, ghost_vars>>]_vars

\* destroy() returned success without a native call on a node whose
\* destruction had completed and whose state had been freed.
C12_Witness ==
    /\ ret = CallRet("destroy", "Ok")
    /\ \E n \in 1..alloc :
          hwnd[n] = NULL /\ terminal[n] /\ win[n] = "dead" /\ frees[n] = 1 /\ Captured(n)

\* destroy() is called on the Live node n in this step: nothing but the native
\* request is issued.
DestroyOnlyRequests(n) ==
    (hwnd[n] # NULL /\ destroy(n)) =>
       /\ Depth' = Depth + 1
       /\ stack'[Depth'] = Frame("DestroyWindow", hwnd[n], "destroy", "begin")
       /\ UNCHANGED <<node_vars, state_vars, native_vars, ncb, ghost_vars>>

\* The native request of a destroy() fails in this step: destroy() returns
\* the error and its node is still Live, children and callbacks unchanged.
DestroyFailureReturned ==
    (Depth > 0 /\ Top.t = "DestroyWindow" /\ Top.m = "destroy" /\ Top.pc = "begin"
       /\ win[Top.h] # "alive") =>
       /\ stack' = Pop
       /\ ret' = Ret("Err", 0, TRUE)
       /\ hwnd[Top.h] = Top.h
       /\ UNCHANGED <<node_vars, state_vars, native_vars, ncb, ghost_vars>>

\* This step is the user logic of the dispatch of n's terminal notification.
InTerminalDispatch(n) ==
    Depth > 0 /\ Top.t = "disp" /\ Top.pc = "user" /\ Top.m = WM_NCDESTROY /\ Top.p = n

\* This step is the return of a dispatch call of n that caught a fault.
InFaultReturn(n) ==
    Depth > 0 /\ Top.t = "disp" /\ Top.pc = "post" /\ Top.err /\ Top.p = n

\* This step releases what node n holds: its children list gets shorter, or a
\* Filled callback slot of n is emptied.
Releases(n) ==
    \/ Len(children'[n]) < Len(children[n])
    \/ on_close[n].st = "Filled" /\ on_close'[n].st = "Empty"
    \/ on_destroy[n].st = "Filled" /\ on_destroy'[n].st = "Empty"

\* The native destruction of n's window is in progress.
Destroying(n) ==
    \E i \in 1..Depth : stack[i].t = "DestroyWindow" /\ stack[i].h = n

Running == {i \in 1..Depth : stack[i].t = "cb"}

\* C14: a callback instance that is executing is never started a second
\* time: no two callback frames run the same instance, and no slot holds an
\* executing instance, whatever set and invoke calls the callbacks nest.
C14_NoReentry ==
    \A i \in Running :
        /\ \A j \in Running : j # i => stack[j].f # stack[i].f
        /\ \A n \in Nodes : on_close[n] # Filled(stack[i].f) /\ on_destroy[n] # Filled(stack[i].f)

\* An on_close callback replaced itself on its own slot and a nested
\* close-request invoked the replacement while the first instance was still
\* executing.
C14_Witness ==
    \E i \in Running : \E j \in Running :
        /\ i < j /\ stack[i].h = stack[j].h
        /\ stack[i].m = "on_close" /\ stack[j].m = "on_close"
        /\ stack[i].f # stack[j].f

\* The slot name of node n after this step.
SlotAfter(name, n) == IF name = "on_close" THEN on_close'[n] ELSE on_destroy'[n]

\* This step is an invoke (CallbackCell::with) on a slot that is Executing.
NestedInvoke ==
    /\ Depth > 0 /\ Top.t = "disp" /\ Top.pc = "user"
    /\ SlotFor(Top.m) # "none"
    /\ Slot(SlotFor(Top.m), Top.p) = Borrowed

\* C15: an invoke on a slot that is Executing runs no callback and leaves the
\* slot Executing; and a callback that ends while no set has been called on
\* its slot (none by the program, none by the terminal notification) is
\* reattached, so that the next invoke fires it again.
C15_NestedInvokeNoOp ==
    [][/\ NestedInvoke =>
             /\ SlotAfter(SlotFor(Top.m), Top.p) = Borrowed
             /\ Depth' = Depth
       /\ (Depth > 0 /\ Top.t = "cb" /\ Depth' = Depth - 1
              /\ ncb = 1 /\ ~terminal[Top.h]) =>
             SlotAfter(Top.m, Top.h) = Filled(Top.f)]_vars

\* C16: at every moment at most one callback invocation that originates from
\* a given slot (on_close or on_destroy of a given node) is on the call stack.
C16_OneInvocationPerSlot ==
    \A i \in Running : \A j \in Running :
        (stack[i].h = stack[j].h /\ stack[i].m = stack[j].m) => i = j

\* C17: a set on a slot whose callback is executing pushes no frame and leaves
\* the executing instance running (the written value is not invoked by the
\* current invoke); and when a callback ends after set was called on its slot,
\* the slot holds exactly the value last written by set, not the detached
\* instance.
C17_SetDuringExecution ==
    [][/\ \A name \in {"on_close", "on_destroy"} :
             (Depth > 0 /\ Top.t = "cb" /\ Top.m = name /\ live(Top.h)
                /\ set_callback_within(name, Top.h, MaxCallbacks + 1)) =>
                /\ Depth' = Depth
                /\ stack'[Depth] = [Top EXCEPT !.w = Filled(ncb + 1)]
                /\ SlotAfter(name, Top.h) = Filled(ncb + 1)
       /\ (Depth > 0 /\ Top.t = "cb" /\ Depth' = Depth - 1 /\ Top.w # Unwritten) =>
             /\ SlotAfter(Top.m, Top.h) = Top.w
             /\ SlotAfter(Top.m, Top.h) # Filled(Top.f)]_vars

\* C18: an invoke on a Filled slot starts exactly the stored instance, once,
\* and leaves the slot Executing; if the slot is still as the invoke left it
\* when the callback ends (nothing wrote to it), the slot is Filled with the
\* same instance again, ready for the next invoke; an invoke on an Empty slot
\* runs nothing and leaves it Empty.
C18_InvokeReattaches ==
    [][/\ (Depth > 0 /\ Top.t = "disp" /\ Top.pc = "user" /\ SlotFor(Top.m) # "none") =>
             LET name == SlotFor(Top.m)
                 slot == Slot(name, Top.p)
             IN /\ slot.st = "Filled" =>
                      /\ Depth' = Depth + 1
                      /\ stack'[Depth'] = [Frame("cb", Top.p, name, "run") EXCEPT !.f = slot.f]
                      /\ SlotAfter(name, Top.p) = Borrowed
                /\ slot = Empty =>
                      /\ Depth' = Depth
                      /\ SlotAfter(name, Top.p) = Empty
       /\ (Depth > 0 /\ Top.t = "cb" /\ Depth' = Depth - 1 /\ Slot(Top.m, Top.h) = Borrowed) =>
             SlotAfter(Top.m, Top.h) = Filled(Top.f)]_vars

\* A close-request dispatch has returned after its on_close callback ran to
\* its end, and the slot holds the callback again.
C18_Witness ==
    \E n \in 1..alloc :
        /\ Depth = 0 /\ ret = DispatchRet(n, "0", 0)
        /\ on_close[n].st = "Filled" /\ hwnd[n] = n /\ ~faulted[n]

\* The primary entry point is entered for handle h with a message other than
\* the pre-creation notification while h has no association.
Unassociated ==
    /\ Depth > 0 /\ Top.t = "disp" /\ Top.pc = "entry" /\ ~Top.sub
    /\ Top.m # WM_NCCREATE
    /\ assoc[Top.h] = NULL

\* C19: a dispatch call of the primary entry point for an unassociated handle
\* and a message other than the pre-creation notification never enters user
\* logic: it either returns the default handler's result at once or, for a
\* close-request, stays in the default handler while that destroys the window
\* and then returns; the default handler is called exactly once, and the call
\* changes no entry counter, no destroy_this flag, no state and no cell.
C19_UnassociatedGoesToDefault ==
    [][/\ Unassociated =>
             /\ UNCHANGED <<node_vars, state_vars, native_vars, ncb, ghost_vars>>
             /\ \/ stack' = Pop /\ ret' = DispatchRet(Top.h, "default", 1)
                \/ /\ Top.m = WM_CLOSE
                   /\ stack' = Append(SetTop([Top EXCEPT !.pc = "defret", !.def = 1]),
                                       Frame("DestroyWindow", Top.h, "none", "begin"))
       /\ (Depth > 0 /\ Top.t = "disp" /\ Top.pc = "defret") =>
             /\ UNCHANGED <<node_vars, state_vars, native_vars, ncb, ghost_vars>>
             /\ stack' = Pop /\ ret' = DispatchRet(Top.h, "default", 1)]_vars

\* The message that precedes the pre-creation notification was answered by
\* the default handler: the window exists, its state is allocated, and
\* neither the association nor the cell is set yet.
C19_Witness ==
    \E h \in 1..alloc :
        /\ ret = DispatchRet(h, "default", 1)
        /\ Creating(h) /\ win[h] = "alive" /\ state[h] = "live"
        /\ assoc[h] = NULL /\ hwnd[h] = NULL /\ entry_count[h] = 0

\* The process has aborted in the dispatch call on top of the stack.
Aborted == Depth > 0 /\ Top.pc = "abort"

\* C20: the entry counter stays within its width and never wraps: it always
\* equals the number of active dispatch frames of a live state; a dispatch
\* call that arrives when the counter is at its maximum aborts the process
\* before user logic runs (the counter is left alone, the frame never reaches
\* the user logic, and nothing runs after the abort).
C20_CounterNeverWraps ==
    /\ [](\A n \in Nodes :
             /\ entry_count[n] \in 0..CounterMax
             /\ state[n] = "live" => entry_count[n] = Cardinality(ActiveFrames(n)))
    /\ [][/\ (Depth > 0 /\ Top.t = "disp" /\ Top.pc = "entry"
                /\ Resolve(Top.h, Top.m, Top.p) # NULL
                /\ entry_count[Resolve(Top.h, Top.m, Top.p)] = CounterMax) =>
                   /\ stack'[Depth].pc = "abort" /\ Depth' = Depth
                   /\ entry_count' = entry_count
          /\ Aborted => UNCHANGED vars]_vars

\* The process aborted: a dispatch call arrived while as many calls of the
\* same state as the counter can count were active.
C20_Witness ==
    /\ Aborted
    /\ entry_count[Top.p] = CounterMax
    /\ Cardinality(ActiveFrames(Top.p)) = CounterMax
    /\ state[Top.p] = "live"

\* The dispatch calls that have entered the user logic.
InUserLogic == {i \in 1..Depth : stack[i].t = "disp" /\ stack[i].pc \in {"user", "incb", "post"}}

\* C21: the flag a dispatch call passes to the user logic is true if and only
\* if the call arrived through static_subclass_wndproc, and false if and only
\* if it arrived through static_wndproc, in either version of the router.
C21_FlagTellsEntryPoint ==
    \A i \in InUserLogic : stack[i].flag = stack[i].sub

\* The creation request of a child of parent p is about to return in this step.
ChildCreated(p) == IsTop("CreateWindowExW", "created") /\ Top.m = "new_child" /\ Top.p = p

\* C22: new_child on a Live parent: when the native creation succeeds, exactly
\* the new child is appended at the end of the parent's children list and the
\* handle returned refers to that node, no other list changes, and a list
\* grows in no other step, so that every list holds created children of its
\* node in creation order; when the native creation fails, the native error
\* is returned and every children list is unchanged.
C22_ChildAppendedInOrder ==
    /\ [](\A p \in Nodes :
             /\ \A i \in 1..Len(children[p]) :
                   /\ born[children[p][i]]
                   /\ nparent[children[p][i]] = p
                   /\ \A j \in 1..Len(children[p]) : i < j => children[p][i] < children[p][j])
    /\ [][/\ \A p \in Nodes :
                /\ ChildCreated(p) =>
                      /\ children'[p] = Append(children[p], Top.h)
                      /\ ret' = CreatedRet("new_child", Top.h)
                      /\ hwnd'[Top.h] = Top.h
                      /\ \A q \in Nodes \ {p} : children'[q] = children[q]
                /\ Len(children'[p]) > Len(children[p]) => ChildCreated(p)
          /\ (IsTop("CreateWindowExW", "begin") /\ win'[Top.h] = "none") =>
                /\ ret' = FailedRet(Top.m)
                /\ stack' = Pop
                /\ children' = children]_vars

\* The creation of a first child failed and left the list empty; the creation
\* of the next one succeeded and the list holds exactly the node returned.
C22_Witness ==
    /\ ret = CreatedRet("new_child", 3)
    /\ children[1] = <<3>>
    /\ win[2] = "none" /\ hwnd[2] = NULL /\ ~born[2]
    /\ hwnd[3] = 3 /\ hwnd[1] = 1
    /\ Depth = 0

\* The other slot of a node.
OtherSlot(name) == IF name = "on_close" THEN "on_destroy" ELSE "on_close"

\* C23: on_close and on_destroy return success; on a node whose cell is
\* Absent they leave both slots of every node, the cells, the children lists
\* and the stored options unchanged; on a Live node they replace the value of
\* the matching slot of that node by the new closure and change no other
\* slot, no cell, no children list and no stored option.
C23_RegisterOnlyWhenLive ==
    [][\A name \in {"on_close", "on_destroy"} : \A n \in Nodes :
          set_callback(name, n) =>
             /\ ret' = Ret("Ok", 0, FALSE)
             /\ Depth' = Depth
             /\ hwnd' = hwnd /\ children' = children /\ background' = background
             /\ \A q \in Nodes : SlotAfter(OtherSlot(name), q) = Slot(OtherSlot(name), q)
             /\ \A q \in Nodes \ {n} : SlotAfter(name, q) = Slot(name, q)
             /\ SlotAfter(name, n) = IF hwnd[n] = NULL THEN Slot(name, n) ELSE Filled(ncb + 1)]_vars

\* A registration on a node whose window is gone returned success and stored
\* nothing: no closure has been stored anywhere.
C23_Witness ==
    /\ ret = Ret("Ok", 0, FALSE)
    /\ ncb = 0
    /\ \E n \in 1..alloc : hwnd[n] = NULL /\ terminal[n] /\ Captured(n)
    /\ \A q \in Nodes : on_close[q] = Empty /\ on_destroy[q] = Empty

\* The native runtime is destroying the window of c as a child of a window
\* that is being destroyed.
Cascading(c) ==
    \E i \in 1..Depth :
        stack[i].t = "DestroyWindow" /\ stack[i].h = c /\ stack[i].m = "DestroyWindow"

\* A liveness-checked operation on the child c, whose cell is Absent, returns
\* Destroyed in this step and issues no native call.
DeadChildRefused(c) ==
    (hwnd[c] = NULL /\ \E op \in Operations : operation(op, c)) =>
       /\ ret' = Ret("Destroyed", 0, FALSE)
       /\ stack' = stack
       /\ UNCHANGED <<node_vars, native_vars>>

CreationFailed(n) == n \in 1..alloc /\ ~Creating(n) /\ win[n] = "none"

\* The dispatch state of n is freed at most once, and has been freed once the
\* terminal notification of its window has been delivered and no dispatch call
\* of the state is active any more.
FreedAfterTerminal(n) ==
    /\ frees[n] <= 1
    /\ (terminal[n] /\ ActiveFrames(n) = {}) => frees[n] = 1

\* C25: the dispatch state a creation request allocated is freed at most
\* once; it has been freed exactly once when the terminal notification of its
\* window has been delivered and the outermost dispatch call of the state has
\* returned, and also when the native creation call has failed, for a primary
\* window as for a native control.
C25_StateFreedOnce ==
    \A n \in 1..alloc :
        /\ FreedAfterTerminal(n)
        /\ CreationFailed(n) => frees[n] = 1

\* The running callbacks of node n.
RunningOf(n) == {i \in Running : stack[i].h = n}

\* Drop for WindowImpl of node n is running.
Dropping(n) == \E i \in 1..Depth : stack[i].t = "drop" /\ stack[i].h = n

\* C26: in the version with `this`, a callback of a node starts only in a
\* step in which the back-reference upgrades (a strong handle exists) and the
\* strong count grows by one; that handle is held as long as the callback is
\* on the call stack and released in the step in which it returns; the
\* back-reference is not counted, so a node without strong handles is
\* deallocated; and while a callback of the node is executing the node is
\* neither deallocated nor being dropped.
C26_StrongHandleWhileCallback ==
    /\ [](\A n \in Nodes :
             /\ strong[n] >= Cardinality(RunningOf(n))
             /\ RunningOf(n) # {} => (strong[n] >= 1 /\ ~dropped[n] /\ ~Dropping(n))
             /\ dropped[n] => strong[n] = 0
             /\ (n \in 1..alloc /\ strong[n] = 0) => (dropped[n] \/ Dropping(n)))
    /\ [][/\ (Depth' = Depth + 1 /\ stack'[Depth'].t = "cb") =>
                /\ strong[stack'[Depth'].h] > 0
                /\ strong'[stack'[Depth'].h] = strong[stack'[Depth'].h] + 1
          /\ (Depth > 0 /\ Top.t = "cb" /\ (Depth' < Depth \/ stack'[Depth].t # "cb")) =>
                strong'[Top.h] = strong[Top.h] - 1]_vars

\* The program dropped its last handle of the window from inside the window's
\* callback: the callback is still executing and the handle made from the
\* back-reference is the only strong handle left.
C26_Witness ==
    /\ Depth > 0 /\ Top.t = "cb"
    /\ strong[Top.h] = 1 /\ UserHandles(Top.h) = 0
    /\ ~dropped[Top.h] /\ hwnd[Top.h] = Top.h

\* The call on top of the stack is the dispatch of a message of no consumed
\* kind for a handle whose association resolves.
PassThrough ==
    /\ Depth > 0 /\ ~uaf /\ Top.t = "disp" /\ Top.m = WM_OTHER
    /\ \/ Top.pc = "entry" /\ assoc[Top.h] # NULL
       \/ Top.pc \in {"user", "post"}

\* C27: the dispatch of a message that is neither the pre-creation
\* notification, a close-request, the pre-destruction or the terminal
\* notification nor a paint request, for a handle whose association resolves,
\* keeps the handle and the message it was called with, calls the default
\* handler exactly once (its user logic consumes nothing and the call returns
\* the default handler's result), and changes no cell, no children list, no
\* callback slot and no stored option.
C27_OtherMessagesPassThrough ==
    [][PassThrough =>
          /\ hwnd' = hwnd /\ children' = children /\ background' = background
          /\ on_close' = on_close /\ on_destroy' = on_destroy
          /\ Top.pc = "entry" =>
                /\ Top.def = 0
                /\ stack' = SetTop([Top EXCEPT !.pc = stack'[Depth].pc, !.p = assoc[Top.h],
                                               !.flag = stack'[Depth].flag])
                /\ stack'[Depth].pc \in {"user", "abort"}
          /\ Top.pc = "user" => stack' = SetTop([Top EXCEPT !.pc = "post", !.def = 1])
          /\ Top.pc = "post" =>
                /\ Top.def = 1
                /\ stack' = Pop
                /\ ret' = DispatchRet(Top.h, "default", 1)]_vars

\* The user logic of a Live node with a registered callback has handed an
\* ordinary message to the default handler.
C27_Witness ==
    /\ Depth > 0 /\ Top.t = "disp" /\ Top.m = WM_OTHER /\ Top.pc = "post"
    /\ Top.def = 1 /\ Top.p # NULL /\ hwnd[Top.p] = Top.h
    /\ on_close[Top.p].st = "Filled"
    /\ children[Top.p] # <<>>

\* Node n holds nothing any more: cell Absent, no children, both slots Empty.
Cleared(n) ==
    /\ hwnd[n] = NULL
    /\ children[n] = <<>>
    /\ on_close[n] = Empty /\ on_destroy[n] = Empty

\* C28: the user logic of the dispatch of a node's terminal notification
\* leaves the cell Absent, the children list empty and both callback slots
\* Empty, whatever they held (a slot that is Executing included); and a node
\* that was created and holds nothing any more stays so in every later step:
\* the callback that was executing is not reattached when it returns, no slot
\* is Filled and no child is appended again.
C28_TerminalClears ==
    [][\A n \in Nodes :
          /\ InTerminalDispatch(n) => Cleared(n)'
          /\ (born[n] /\ Cleared(n)) => Cleared(n)']_vars

\* The on_close callback of a node whose terminal notification was dispatched
\* while it was executing has returned, and its slot is still Empty.
C28_Witness ==
    /\ Depth = 1 /\ Top.t = "disp" /\ Top.m = WM_CLOSE /\ Top.pc = "post"
    /\ Top.f # 0 /\ ~Top.err
    /\ terminal[Top.p] /\ Cleared(Top.p)
    /\ Top.p \in Top.req

\* The call on top of the stack is the dispatch of a close-request that
\* resolved its node and is at position pc.
CloseDispatchAt(pc) ==
    Depth > 0 /\ ~uaf /\ Top.t = "disp" /\ Top.m = WM_CLOSE /\ Top.pc = pc

\* The dispatch of a close-request consumes it: the user logic starts the
\* on_close callback if one is registered and nothing else, touches neither
\* the cell nor the native window, and the call returns 0 without the default
\* handler; the default handler's own destruction request is issued only for
\* a handle whose node is not Live.
CloseConsumed ==
    /\ CloseDispatchAt("user") =>
          /\ hwnd' = hwnd /\ win' = win /\ children' = children
          /\ stack'[Depth].def = 0
          /\ IF on_close[Top.p].st = "Filled"
             THEN /\ Depth' = Depth + 1
                  /\ stack'[Depth'].t = "cb" /\ stack'[Depth'].m = "on_close"
                  /\ stack'[Depth'].h = Top.p
             ELSE Depth' = Depth /\ stack'[Depth].pc = "post"
    /\ CloseDispatchAt("post") =>
          /\ Top.def = 0
          /\ stack' = Pop
          /\ ret' = DispatchRet(Top.h, "0", 0)
          /\ win' = win
    /\ (Depth > 0 /\ Top.t = "DestroyWindow" /\ Top.m = "none") => hwnd[Top.h] = NULL

DestroyDispatchAt(pc) ==
    Depth > 0 /\ ~uaf /\ Top.t = "disp" /\ Top.m = WM_DESTROY /\ Top.pc = pc

\* The on_destroy callback of node n is on the call stack.
OnDestroyRunning(n) == \E i \in Running : stack[i].h = n /\ stack[i].m = "on_destroy"

\* This step starts the on_destroy callback of node n.
OnDestroyStarts(n) ==
    /\ Depth' = Depth + 1
    /\ stack'[Depth'].t = "cb" /\ stack'[Depth'].m = "on_destroy" /\ stack'[Depth'].h = n

\* The user logic of the dispatch of a pre-destruction notification: the cell
\* of the node is Present and stays so, the registered on_destroy callback is
\* started (and nothing else is), and the message is marked for the default
\* handler.  on_destroy starts in no other step, and never for a node whose
\* terminal notification has been delivered; a liveness-checked operation
\* that user code calls on a node with a Present cell from inside on_destroy
\* is not refused.
OnDestroyWhilePresent ==
    /\ DestroyDispatchAt("user") =>
          /\ hwnd[Top.p] = Top.h /\ win[Top.h] = "destroying"
          /\ hwnd' = hwnd /\ children' = children
          /\ stack'[Depth].def = 1
          /\ IF on_destroy[Top.p].st = "Filled"
             THEN OnDestroyStarts(Top.p)
             ELSE Depth' = Depth /\ stack'[Depth].pc = "post"
    /\ \A n \in Nodes :
          /\ OnDestroyStarts(n) => (DestroyDispatchAt("user") /\ Top.p = n /\ ~terminal[n])
          /\ (Depth > 0 /\ Top.t = "cb" /\ Top.m = "on_destroy" /\ Top.h = n /\ hwnd[n] # NULL
                /\ \E op \in Operations : operation(op, n)) =>
                (ret' = NoRet \/ ret' = Ret("Ok", 0, TRUE))

LastHolderReleased == Depth > 0 /\ ~uaf /\ Top.t = "drop" /\ Top.pc = "destroy"

\* This step issues the native destruction request of the drop on top.
DropRequestsDestruction ==
    /\ Depth' = Depth + 1
    /\ stack'[Depth'] = Frame("DestroyWindow", Top.h, "drop", "begin")

\* C31: the release of the last holder of a node issues a native destruction
\* request iff the cell of the node is Present at that moment, and the request
\* is for the handle the cell holds; the release of a node that is Destroyed
\* or was never created issues no native call and changes nothing of the
\* native runtime.
C31_ReleaseRequestsIffPresent ==
    [][LastHolderReleased =>
          /\ DropRequestsDestruction <=> hwnd[Top.h] # NULL
          /\ hwnd[Top.h] # NULL => hwnd[Top.h] = Top.h
          /\ hwnd[Top.h] = NULL =>
                /\ stack' = SetTop([Top EXCEPT !.pc = "release"])
                /\ UNCHANGED native_vars]_vars

\* The last holder of a window that was destroyed before is released: the
\* drop has gone past destroy() without a native call.
C31_Witness ==
    /\ Depth > 0 /\ Top.t = "drop" /\ Top.m = "handle" /\ Top.pc = "release"
    /\ terminal[Top.h] /\ win[Top.h] = "dead" /\ hwnd[Top.h] = NULL
    /\ ret = NoRet

\* The dispatch call on top caught a fault and is about to return while other
\* calls on the same state are still active.
NestedFaultReturn ==
    /\ Depth > 0 /\ ~uaf /\ Top.t = "disp" /\ Top.pc = "post" /\ Top.err
    /\ entry_count[Top.p] > 1

\* The dispatch call on top is about to return without a fault of its own,
\* on a state that a nested call has torn down.
OuterReturnAfterTeardown ==
    /\ Depth > 0 /\ ~uaf /\ Top.t = "disp" /\ Top.pc = "post" /\ ~Top.err
    /\ destroy_this[Top.p] /\ faulted[Top.p]

\* C32: a dispatch call that caught a fault while outer calls on the same
\* state are active sets destroy_this, removes the association and clears the
\* cell, but leaves the state allocated; an outer call then returns the
\* result of its own message (0 for a consumed message, the default handler's
\* otherwise); and the state is freed in one step only, the return of the
\* call that brings the entry counter to 0, and that return does free it.
C32_NestedFaultDefersFree ==
    [][/\ NestedFaultReturn =>
             /\ destroy_this'[Top.p] /\ assoc'[Top.h] = NULL /\ hwnd'[Top.p] = NULL
             /\ state'[Top.p] = "live" /\ frees' = frees
             /\ entry_count'[Top.p] = entry_count[Top.p] - 1
             /\ stack' = Pop
             /\ ret' = DispatchRet(Top.h, "0", 0)
       /\ OuterReturnAfterTeardown =>
             /\ stack' = Pop
             /\ ret' = IF Consumed(Top.flag, Top.m)
                       THEN DispatchRet(Top.h, "0", 0)
                       ELSE DispatchRet(Top.h, "default", 1)
             /\ state'[Top.p] = "freed" <=> entry_count[Top.p] = 1
       /\ \A n \in Nodes :
             (state[n] = "live" /\ state'[n] = "freed") =>
                /\ Depth > 0 /\ Top.t = "disp" /\ Top.pc = "post" /\ Top.p = n
                /\ entry_count[n] = 1 /\ ActiveFrames(n) = {Depth}
                /\ frees[n] = 0 /\ frees'[n] = 1]_vars

\* The outermost call of a state that a nested call tore down after a fault is
\* about to return: the state is still allocated, the cell Absent, the
\* association removed.
C32_Witness ==
    /\ OuterReturnAfterTeardown
    /\ Depth = 1 /\ entry_count[Top.p] = 1
    /\ state[Top.p] = "live" /\ frees[Top.p] = 0
    /\ hwnd[Top.p] = NULL /\ assoc[Top.h] = NULL

\* This step is the call of the user logic by the raw entry point on top of
\* the stack.
InvokesUserLogic ==
    /\ Depth > 0 /\ ~uaf /\ Top.t = "disp" /\ Top.pc = "entry"
    /\ Depth' = Depth /\ stack'[Depth].pc = "user"

\* C33: when a raw entry point calls the user logic of a state whose
\* destroy_this is not set, the cell of the state holds the handle of the
\* call; for a primary window the pre-creation notification writes the cell
\* in the step that first calls the user logic, and no user logic of the
\* state has run before; a native control has no cell and no subclass
\* registration while its creation call runs, gets both when the call has
\* returned, and is registered only with its cell Present.
C33_PresentWhenUserLogicRuns ==
    [][/\ InvokesUserLogic =>
             /\ ~destroy_this[stack'[Depth].p] => hwnd'[stack'[Depth].p] = Top.h
             /\ (Top.m = WM_NCCREATE /\ hwnd[stack'[Depth].p] = NULL) =>
                   /\ ~Top.sub /\ ~control[Top.h]
                   /\ entry_count[stack'[Depth].p] = 0
                   /\ hwnd'[stack'[Depth].p] = Top.h
       /\ \A n \in 1..alloc :
             /\ (~destroy_this[n] /\ ActiveFrames(n) # {}) =>
                   \A i \in ActiveFrames(n) :
                      (stack[i].pc = "user" /\ i = Depth) => hwnd[n] = stack[i].h
             /\ control[n] =>
                   /\ Creating(n) => (hwnd[n] = NULL /\ assoc[n] = NULL /\ ActiveFrames(n) = {})
                   /\ (assoc[n] = NULL /\ assoc'[n] # NULL) =>
                         /\ Top.t = "CreateWindowExW" /\ Top.pc = "created" /\ Top.h = n
                         /\ hwnd'[n] = n /\ assoc'[n] = n]_vars

\* The subclass entry point has called the user logic of a native control
\* whose cell was set when its creation call returned, under a primary window
\* whose cell the pre-creation notification set.
C33_Witness ==
    /\ Depth > 0 /\ Top.t = "disp" /\ Top.sub /\ Top.pc = "user"
    /\ control[Top.h] /\ ~destroy_this[Top.p]
    /\ hwnd[Top.p] = Top.h
    /\ nparent[Top.h] # NULL /\ ~control[nparent[Top.h]]
    /\ hwnd[nparent[Top.h]] = nparent[Top.h]

\* C34: when the holder of a created window has been released and the
\* release has returned, the native object of the window is destroyed; no
\* native object is alive behind an Absent cell once its creation call has
\* returned.
C34_ReleasedIsDestroyed ==
    \A n \in 1..alloc :
        /\ (dropped[n] /\ Depth = 0) => win[n] = "dead"
        /\ (born[n] /\ hwnd[n] = NULL /\ Depth = 0) => win[n] = "dead"

\* This step issues a native destruction request of the managed layer
\* (destroy() or the release of a holder) for handle h.
RequestsDestruction(h) ==
    /\ Depth' = Depth + 1
    /\ stack'[Depth'].t = "DestroyWindow" /\ stack'[Depth'].pc = "begin"
    /\ stack'[Depth'].m \in {"destroy", "drop"}
    /\ stack'[Depth'].h = h

\* C35: the managed layer issues a native destruction request only for a
\* native object that is alive and whose destruction has not begun: destroy()
\* or a release between the pre-destruction and the terminal notification of
\* the object, or after them, issues no request.
C35_OneDestructionRequest ==
    [][\A h \in Nodes : RequestsDestruction(h) => win[h] = "alive"]_vars

\* The calls on the stack that work on node n: the dispatch calls that
\* resolved it and have not returned, and its callbacks.
CallsOn(n) ==
    {i \in 1..Depth :
        \/ stack[i].t = "disp" /\ stack[i].p = n /\ stack[i].pc \in {"user", "incb", "post"}
        \/ stack[i].t = "cb" /\ stack[i].h = n}

\* C36: in the version whose entry points dispatch to the WindowImpl itself,
\* a node is not deallocated while a dispatch call that resolved it or one of
\* its callbacks is on the call stack, and no call dereferences a deallocated
\* node.
C36_NoFreeDuringDispatch ==
    /\ ~uaf
    /\ \A n \in Nodes : dropped[n] => CallsOn(n) = {}

\* The children list of n after this step begins with the list before it.
ChildrenKept(n) ==
    /\ Len(children'[n]) >= Len(children[n])
    /\ SubSeq(children'[n], 1, Len(children[n])) = children[n]

\* C37: while the cell of a parent is Present, and up to the dispatch of its
\* own terminal notification, its children list only grows at the end, by one
\* child in a step, whatever happens to the children (a Destroyed child
\* stays in the list); the list of any node gets shorter in
\* one step only, the dispatch of the node's own terminal notification, which
\* empties it.
C37_ChildrenOnlyGrow ==
    [][\A n \in Nodes :
          /\ (hwnd[n] # NULL /\ ~InTerminalDispatch(n)) =>
                /\ ChildrenKept(n)
                /\ Len(children'[n]) <= Len(children[n]) + 1
          /\ ~ChildrenKept(n) => (InTerminalDispatch(n) /\ children'[n] = <<>>)]_vars

\* A Live parent lists two children, the first of which has been destroyed
\* through to its terminal notification.
C37_Witness ==
    \E n \in Nodes :
        /\ hwnd[n] = n /\ Len(children[n]) = 2
        /\ terminal[children[n][1]] /\ hwnd[children[n][1]] = NULL
        /\ hwnd[children[n][2]] # NULL
        /\ Depth = 0

\* C38: the user logic of the pre-destruction notification of a node whose
\* cell is Present and whose on_destroy slot is Filled starts the callback,
\* whoever requested the destruction (destroy(), the cascade from the parent,
\* the release of the last holder); on_destroy starts in no other step, only
\* while the window is being destroyed and never while it is already running.
C38_OnDestroyOncePerDestruction ==
    [][/\ (DestroyDispatchAt("user") /\ hwnd[Top.p] = Top.h
              /\ on_destroy[Top.p].st = "Filled") => OnDestroyStarts(Top.p)
       /\ \A n \in Nodes :
             OnDestroyStarts(n) =>
                /\ DestroyDispatchAt("user") /\ Top.p = n
                /\ win[n] = "destroying" /\ ~OnDestroyRunning(n)]_vars

\* C39: no call of set or invoke on a callback slot fails on a borrow
\* conflict: neither while a callback invoked from the slot is executing nor
\* while the destructor of a closure that set replaced is running.
C39_NoBorrowConflict ==
    /\ ret.v # "BorrowMutError"
    /\ \A i \in 1..Depth : stack[i].pc # "panic"

\* The method chain of the statement in source order, and its names, as the
\* statement was written.
SourceChain == Reversed(statement.expr.calls)

\* The name begins with the four characters n, e, w, _.
CreateName(name) ==
    Len(name) >= 4 /\ name[1] = "n" /\ name[2] = "e" /\ name[3] = "w" /\ name[4] = "_"

\* C40: Item::new classifies `let x = root.m1()...mk();` as a Definition
\* exactly when root differs from x and m1 is a create method, as a
\* Redefinition exactly when root equals x and m1 is not a create method, and
\* as no item otherwise (an empty chain included); no statement is both; a
\* Definition names x, its parent root and its create call m1, and lists
\* m2..mk in source order; a Redefinition lists m1..mk in source order.
C40_ItemClassification ==
    item # Unclassified =>
        LET x == statement.ident
            root == statement.expr.root
            src == SourceChain
            def == src # <<>> /\ root # x /\ CreateName(src[1])
            redef == src # <<>> /\ root = x /\ ~CreateName(src[1])
        IN /\ ~(def /\ redef)
           /\ item.kind = "Definition" <=> def
           /\ item.kind = "Redefinition" <=> redef
           /\ item.kind = "None" <=> (~def /\ ~redef)
           /\ def =>
                 /\ item.ident = x /\ item.parent = root
                 /\ item.create.ident = src[1]
                 /\ Len(item.methods) = Len(src) - 1
                 /\ \A i \in 1..Len(item.methods) : item.methods[i].ident = src[i + 1]
           /\ redef =>
                 /\ item.ident = x
                 /\ Len(item.methods) = Len(src)
                 /\ \A i \in 1..Len(item.methods) : item.methods[i].ident = src[i]

\* `let x = y.new_a().on_a().t();` has been classified as a Definition whose
\* method list is on_a, t.
C40_Witness ==
    /\ statement = Local(<<"x">>, <<"y">>,
                         <<(<<"n", "e", "w", "_", "a">>), (<<"o", "n", "_", "a">>), (<<"t">>)>>)
    /\ item.kind = "Definition"
    /\ Len(item.methods) = 2
    /\ item.methods[1].ident = <<"o", "n", "_", "a">> /\ item.methods[2].ident = <<"t">>

====
